---- MODULE Spec2Model ----
(***************************************************************************)
(* Model of the dither-me rendering pipeline: WebGLService (setupWebGL,    *)
(* ditherImage), the renderer / texture / palette services it drives, and  *)
(* the fragment program dither.glsl.                                       *)
(*                                                                         *)
(* Numbers.  Shader colours are exact rationals.  A channel value v is     *)
(* held as the integer v*Q ("Q-units"); luminance, a weighted sum with     *)
(* weights in thousandths, is held as v*1000*Q ("K-units").  The result of *)
(* a linearly filtered palette fetch has another denominator, so a         *)
(* fragment output channel is a record [n, d] meaning n/d.  Nothing is     *)
(* rounded before the value is written to the 8-bit drawing buffer: the    *)
(* shader's arithmetic is taken as exact, not at the precision a GPU gives *)
(* `mediump float`.                                                        *)
(*                                                                         *)
(* Calls.  The service is driven by one caller at a time: setupWebGL and   *)
(* ditherImage are called while no ditherImage call is in flight, always   *)
(* with the same canvas and with well-typed arguments.  The application    *)
(* specification (SpecApp) is where calls overlap: it follows App's        *)
(* handlers and counts the calls that have not returned; SpecOverlap runs  *)
(* overlapping calls on the service itself, with their GL commands.        *)
(*                                                                         *)
(* Specifications.  Spec: the service under setups and render calls.       *)
(* SpecCache: the same actions on renders that select a user palette.      *)
(* SpecPixel: one invocation of the fragment program.  SpecPalette: one    *)
(* palette selection, resolved and rasterized.  SpecApp: the page's events.*)
(* SpecBayer: one threshold lookup.  SpecOverlap: ditherImage calls made   *)
(* without waiting for the earlier ones.                                   *)
(***************************************************************************)
EXTENDS Integers, Sequences, FiniteSets, TLC

\* ------------------------------------------------------------------ bounds
\* DitherOptions.ditherAmount (0.0 to 1.0) is held in AmtDen-ths
AmtDen == 2
\* downsampling factors of the model are 1..MaxFactor
MaxFactor == 2
\* fragment coordinates of the pixel-stage specification are 0..MaxCoord
MaxCoord == 3
\* longest custom palette and largest requested colour count of the palette stage
MaxColors == 17
\* the application specification follows the page up to its MaxCalls-th render call
MaxCalls == 2
\* downsampling factors of the application specification are 1..MaxAppFactor
MaxAppFactor == 4
\* pixel coordinates of the threshold specification are 0..MaxBayerCoord
MaxBayerCoord == 16
\* the overlapping-calls specification follows up to MaxOverlap calls
MaxOverlap == 2
\* handleImageLoaded: `newImage.width > 2000 || newImage.height > 2000`
LargeSide == 2000

\* ----------------------------------------------------------------- numbers
\* Q-units per 1.0: a common denominator of n/255 (texel bytes), n/16, n/9,
\* n/2 (quantisation levels) and n/64 (Bayer thresholds)
Q == 255 * 192
\* K-units per 1.0
K == 1000 * Q
\* width of the palette texture (createPaletteTexture)
PaletteWidth == 256
\* K-units spanned by one palette texel
TexelSpan == K \div PaletteWidth
\* denominator of a filtered palette fetch: texel bytes (n/255) times weights
P == 255 * TexelSpan

Min(a, b) == IF a < b THEN a ELSE b
Max(a, b) == IF a > b THEN a ELSE b
Clamp(x, lo, hi) == Min(Max(x, lo), hi)

\* an 8-bit texel channel as the shader sees it: b/255
Unorm(b) == b * (Q \div 255)
UnormVec(rgb) == <<Unorm(rgb[1]), Unorm(rgb[2]), Unorm(rgb[3])>>
\* a Q-unit channel as a fragment output
Exact(n) == [n |-> n, d |-> Q]
ExactVec(v) == <<Exact(v[1]), Exact(v[2]), Exact(v[3])>>
\* the drawing buffer stores round(v*255) of a fragment output channel
ToByte(c) ==
    LET u == c.d \div 255
    IN  Clamp((2 * c.n + u) \div (2 * u), 0, 255)
RECURSIVE GCD(_, _)
GCD(a, b) == IF b = 0 THEN a ELSE GCD(b, a % b)
\* a.n/a.d = b.n/b.d, cross-multiplied after removing the common factor
RatEq(a, b) ==
    LET g == GCD(a.d, b.d)
    IN  a.n * (b.d \div g) = b.n * (a.d \div g)

\* ------------------------------------------------------- dither.glsl
\* toGrayscale: dot(color, vec3(.299,.587,.114)), in K-units
toGrayscale(color) == 299 * color[1] + 587 * color[2] + 114 * color[3]

\* variant: the last entry is 3, not 1
bayerMatrix2x2Flat == <<<<0, 2>>, <<3, 3>>>>
bayerMatrix2x2 == <<<<0, 2>>, <<3, 1>>>>
bayerMatrix4x4 ==
    << <<0, 8, 2, 10>>, <<12, 4, 14, 6>>, <<3, 11, 1, 9>>, <<15, 7, 13, 5>> >>
\* getBayer8x8Value: the if-ladder on x then y, as a table indexed [x+1][y+1]
getBayer8x8Value(x, y) ==
    LET t == << <<0, 48, 12, 60, 3, 51, 15, 63>>,
                <<32, 16, 44, 28, 35, 19, 47, 31>>,
                <<8, 56, 4, 52, 11, 59, 7, 55>>,
                <<40, 24, 36, 20, 43, 27, 39, 23>>,
                <<2, 50, 14, 62, 1, 49, 13, 61>>,
                <<34, 18, 46, 30, 33, 17, 45, 29>>,
                <<10, 58, 6, 54, 9, 57, 5, 53>>,
                <<42, 26, 38, 22, 41, 25, 37, 21>> >>
    IN  IF x \in 0..7 /\ y \in 0..7 THEN t[x + 1][y + 1] ELSE 0

\* thresholds in Q-units
getBayerThreshold2x2(x, y) ==
    LET xm == x % 2
        ym == y % 2
    IN  bayerMatrix2x2[xm + 1][ym + 1] * (Q \div 4)
\* variant of getBayerThreshold4x4: x is clamped to the table, not reduced
getBayerThreshold4x4Clamped(x, y) ==
    LET xm == Min(x, 3)
        ym == y % 4
    IN  bayerMatrix4x4[xm + 1][ym + 1] * (Q \div 16)
getBayerThreshold4x4(x, y) ==
    LET xm == x % 4
        ym == y % 4
    IN  bayerMatrix4x4[xm + 1][ym + 1] * (Q \div 16)
getBayerThreshold8x8(x, y) ==
    LET xm == x % 8
        ym == y % 8
    IN  getBayer8x8Value(xm, ym) * (Q \div 64)
getBayerThreshold(u_bayerSize, x, y) ==
    IF u_bayerSize = 0 THEN getBayerThreshold2x2(x, y)
    ELSE IF u_bayerSize = 1 THEN getBayerThreshold4x4(x, y)
    ELSE getBayerThreshold8x8(x, y)

\* mix(16., 2., u_ditherAmount) for an amount of amt/AmtDen; the amounts of
\* the model are those for which the level count is a whole number
\* variant: two levels at every amount
LevelsTwo(amt) == 2
Levels(amt) == (16 * (AmtDen - amt) + 2 * amt) \div AmtDen
\* reduceColor: floor(color * levels) / levels
reduceChannel(c, levels) == ((c * levels) \div Q) * (Q \div levels)
reduceColor(color, levels) ==
    <<reduceChannel(color[1], levels), reduceChannel(color[2], levels),
      reduceChannel(color[3], levels)>>
\* mix(x, y, amt/AmtDen) on Q-unit channels
\* variant: the first operand at every amount
MixAmtFirst(x, y, amt) == x
MixAmt(x, y, amt) == (x * (AmtDen - amt) + y * amt) \div AmtDen
MixVec(a, b, amt) ==
    <<MixAmt(a[1], b[1], amt), MixAmt(a[2], b[2], amt), MixAmt(a[3], b[3], amt)>>

\* adjustContrast; contrast is a whole number in -1..1
adjustContrast(color, contrast) ==
    LET fnum == IF contrast > 0 THEN 1 + contrast ELSE 1
        fden == IF contrast > 0 THEN 1 ELSE 1 - contrast
        adj(c) == Clamp(((c - Q \div 2) * fnum) \div fden + Q \div 2, 0, Q)
    IN  <<adj(color[1]), adj(color[2]), adj(color[3])>>
\* adjustHighlights / adjustMidtones at the value 0, the one value of the
\* model: factor = mix(1,2,0) = 1, so mix(color, color*1, mask) and
\* mix(color, pow(color,1), mask) are color for every mask
adjustHighlights(color, highlights) ==
    <<Clamp(color[1], 0, Q), Clamp(color[2], 0, Q), Clamp(color[3], 0, Q)>>
adjustMidtones(color, midtones) ==
    <<Clamp(color[1], 0, Q), Clamp(color[2], 0, Q), Clamp(color[3], 0, Q)>>
\* preprocessImage; u.brightness is in Q-units
preprocessImage(color, u) ==
    LET c1 == adjustContrast(color, u.contrast)
        c2 == adjustHighlights(c1, u.highlights)
        c3 == adjustMidtones(c2, u.midtones)
        luminance == toGrayscale(c3)
        step == IF luminance < 1000 * u.brightness THEN 0 ELSE Q
    IN  IF u.brightness # Q \div 2
        THEN <<(step + c3[1]) \div 2, (step + c3[2]) \div 2, (step + c3[3]) \div 2>>
        ELSE c3
\* ------------------------------------------------------- color-utils
\* A hex colour string is the sequence of its characters: a hex digit is its
\* value 0..15, "#" is 16.
RECURSIVE parseInt16(_, _)
parseInt16(digits, acc) ==
    IF digits = <<>> \/ Head(digits) > 15 THEN acc
    ELSE parseInt16(Tail(digits), acc * 16 + Head(digits))
hexToRgb(hex) ==
    LET cleanHex == IF hex # <<>> /\ Head(hex) = 16 THEN Tail(hex) ELSE hex
        bigint == parseInt16(cleanHex, 0)
    IN  IF Len(cleanHex) <= 3
        THEN <<((bigint \div 256) % 16) * 17, ((bigint \div 16) % 16) * 17,
               (bigint % 16) * 17>>
        ELSE <<(bigint \div 65536) % 256, (bigint \div 256) % 256, bigint % 256>>

\* the 256 x 1 RGBA buffer createPaletteTexture and updatePaletteTexture
\* fill and upload (alpha, always 255, is left out).  Both loops are the same;
\* the buffer is held as the colour list it is filled from, and texel i of it
\* is PaletteEntry(colors, i).
\* variant of the loop body: the colour nearest to position i, not the floor
PaletteEntryNearest(colors, i) ==
    LET colorIndex == Min((2 * i * Len(colors) + (PaletteWidth - 1))
                            \div (2 * (PaletteWidth - 1)), Len(colors) - 1)
    IN  hexToRgb(colors[colorIndex + 1])
PaletteEntry(colors, i) ==
    LET colorIndex == Min((i * Len(colors)) \div (PaletteWidth - 1), Len(colors) - 1)
    IN  hexToRgb(colors[colorIndex + 1])
createPaletteData(colors) == colors
\* variant of createPaletteTexture's loop: normalizedPos = i / width
createPaletteBufferOpen(colors) ==
    [n \in 1..PaletteWidth |->
        LET i == n - 1
            colorIndex == Min((i * Len(colors)) \div PaletteWidth, Len(colors) - 1)
            rgb == hexToRgb(colors[colorIndex + 1])
        IN  <<rgb[1], rgb[2], rgb[3], 255>>]
\* the 1024 bytes of createPaletteTexture's `data`, entry by entry: its loop
\* (width 256; normalizedPos = i / (width - 1))
createPaletteBuffer(colors) ==
    [n \in 1..PaletteWidth |->
        LET i == n - 1
            colorIndex == Min((i * Len(colors)) \div (PaletteWidth - 1), Len(colors) - 1)
            rgb == hexToRgb(colors[colorIndex + 1])
        IN  <<rgb[1], rgb[2], rgb[3], 255>>]
updatePaletteData(colors) == colors
\* the 1024 bytes of updatePaletteTexture's `data`, entry by entry
updatePaletteBuffer(colors) ==
    [n \in 1..PaletteWidth |->
        CHOOSE e \in {<<rgb[1], rgb[2], rgb[3], 255>> :
                        rgb \in {PaletteEntry(updatePaletteData(colors), n - 1)}} : TRUE]
\* texture2D on a sampler.  A sampler argument describes the texture bound
\* to the unit the sampler uniform names:
\*   [kind |-> "palette", data |-> 256 byte triples]  the 256x1 palette
\*   [kind |-> "solid", rgb |-> byte triple]          a uniform-colour image
\*   [kind |-> "zero"]   a texture specified with null data, or no complete
\*                       texture at all: every fetch gives (0,0,0)
\* LINEAR filtering with CLAMP_TO_EDGE on the 256x1 palette: texel i has its
\* centre at (i + 0.5)/256; a coordinate between two centres blends them.
SamplePalette(data, lumK) ==
    LET t == lumK - TexelSpan \div 2
        i == t \div TexelSpan
        w == t % TexelSpan
        i0 == Clamp(i, 0, PaletteWidth - 1)
        i1 == Clamp(i + 1, 0, PaletteWidth - 1)
        t0 == PaletteEntry(data, i0)
        t1 == PaletteEntry(data, i1)
        ch(c) == [n |-> t0[c] * (TexelSpan - w) + t1[c] * w, d |-> P]
    IN  <<ch(1), ch(2), ch(3)>>
texture2D(sampler, lumK) ==
    IF sampler.kind = "palette" THEN SamplePalette(sampler.data, lumK)
    ELSE IF sampler.kind = "solid" THEN ExactVec(UnormVec(sampler.rgb))
    ELSE ExactVec(<<0, 0, 0>>)

\* findClosestPaletteColor
findClosestPaletteColor(color, u, pal) ==
    IF u.usePalette
    THEN LET lum == toGrayscale(color)
         IN  texture2D(pal, lum)
    ELSE ExactVec(color)

\* applyFloydSteinberg; err is the u_errorTexture fetch at this fragment
applyFloydSteinberg(color, levels, u, err, pal) ==
    LET oldColor == color
        newColor == IF u.usePalette
                    THEN findClosestPaletteColor(oldColor, u, pal)
                    ELSE ExactVec(reduceColor(oldColor, levels))
    IN  IF u.passIndex = 0
        THEN newColor
        ELSE LET accumulatedError == err
                 adjustedColor == <<oldColor[1] + accumulatedError[1],
                                    oldColor[2] + accumulatedError[2],
                                    oldColor[3] + accumulatedError[3]>>
             IN  IF u.usePalette
                 THEN findClosestPaletteColor(adjustedColor, u, pal)
                 ELSE ExactVec(reduceColor(adjustedColor, levels))

\* variant: the 4 x 4 tile for every size but the first
matrixSizeFour(u_bayerSize) ==
    IF u_bayerSize = 0 THEN 2 ELSE 4
\* the tile size main() reduces gl_FragCoord by
matrixSize(u_bayerSize) ==
    IF u_bayerSize = 0 THEN 2 ELSE IF u_bayerSize = 1 THEN 4 ELSE 8
\* the threshold main() compares the fragment at pixel (x, y) with: the
\* coordinates reduced by the tile size, then getBayerThreshold
mainThreshold(u_bayerSize, x, y) ==
    LET size == matrixSize(u_bayerSize)
    IN  getBayerThreshold(u_bayerSize, x % size, y % size)

\* main(): the colour written to gl_FragColor.rgb for the fragment at pixel
\* (x, y).  src is the u_image fetch at the fragment, err the u_errorTexture
\* fetch, pal the u_palette sampler, rand the value of the hash
\* fract(sin(dot(uv, vec2(12.9898,78.233))) * 43758.5453) in Q-units.
main(u, x, y, src, err, pal, rand) ==
    LET color == preprocessImage(src, u)
    IN  IF u.ditherType = 0
        THEN LET size == matrixSize(u.bayerSize)
                 xm == x % size
                 ym == y % size
                 threshold == getBayerThreshold(u.bayerSize, xm, ym)
                 gray == toGrayscale(color)
                 levels == Levels(u.ditherAmount)
                 reduced == reduceColor(color, levels)
                 thresholdColor == IF gray > 1000 * threshold
                                   THEN <<Q, Q, Q>> ELSE <<0, 0, 0>>
                 mixed == MixVec(reduced, thresholdColor, u.ditherAmount)
             IN  findClosestPaletteColor(mixed, u, pal)
        ELSE IF u.ditherType = 2
        THEN LET thresholdColor == IF toGrayscale(color) > 1000 * rand
                                   THEN <<Q, Q, Q>> ELSE <<0, 0, 0>>
                 mixed == MixVec(color, thresholdColor, u.ditherAmount)
             IN  findClosestPaletteColor(mixed, u, pal)
        ELSE applyFloydSteinberg(color, Levels(u.ditherAmount), u, err, pal)

\* ----------------------------------------------------- palette-service
BLACK == <<16, 0, 0, 0, 0, 0, 0>>
WHITE == <<16, 15, 15, 15, 15, 15, 15>>
PALETTES ==
    [
        BW |-> <<<<16, 0, 0, 0, 0, 0, 0>>,
                 <<16, 15, 15, 15, 15, 15, 15>>>>,
        CGA |-> <<<<16, 0, 0, 0, 0, 0, 0>>,
                 <<16, 5, 5, 15, 15, 15, 15>>,
                 <<16, 15, 15, 5, 5, 15, 15>>,
                 <<16, 15, 15, 15, 15, 15, 15>>>>,
        GAMEBOY |-> <<<<16, 0, 15, 3, 8, 0, 15>>,
                 <<16, 3, 0, 6, 2, 3, 0>>,
                 <<16, 8, 11, 10, 12, 0, 15>>,
                 <<16, 9, 11, 11, 12, 0, 15>>>>,
        GAMEBOY_CLASSIC |-> <<<<16, 0, 15, 1, 11, 0, 15>>,
                 <<16, 3, 0, 6, 8, 5, 0>>,
                 <<16, 8, 6, 12, 0, 6, 12>>,
                 <<16, 14, 0, 15, 8, 13, 0>>>>,
        GAMEBOY_POCKET |-> <<<<16, 0, 0, 0, 0, 0, 0>>,
                 <<16, 5, 6, 5, 6, 5, 6>>,
                 <<16, 10, 10, 10, 10, 10, 10>>,
                 <<16, 15, 15, 15, 15, 15, 15>>>>,
        GRAYSCALE |-> <<<<16, 0, 0, 0, 0, 0, 0>>,
                 <<16, 4, 4, 4, 4, 4, 4>>,
                 <<16, 8, 8, 8, 8, 8, 8>>,
                 <<16, 12, 12, 12, 12, 12, 12>>,
                 <<16, 15, 15, 15, 15, 15, 15>>>>,
        SEPIA |-> <<<<16, 4, 0, 2, 4, 1, 7>>,
                 <<16, 8, 6, 5, 12, 3, 7>>,
                 <<16, 12, 4, 9, 13, 5, 10>>,
                 <<16, 14, 6, 13, 1, 10, 7>>>>
    ]
DEFAULT_USER_PALETTES ==
    <<[id |-> 1, colors |-> <<<<16, 0, 0, 1, 15, 3, 15>>, <<16, 0, 0, 7, 4, 13, 9>>,
                              <<16, 7, 15, 13, 11, 15, 15>>, <<16, 15, 15, 15, 15, 15, 15>>>>],
      [id |-> 2, colors |-> <<<<16, 1, 13, 3, 5, 2, 0>>, <<16, 4, 10, 7, 14, 3, 10>>,
                              <<16, 10, 3, 13, 6, 5, 12>>, <<16, 12, 11, 14, 13, 10, 8>>>>],
      [id |-> 3, colors |-> <<<<16, 4, 10, 0, 0, 0, 0>>, <<16, 9, 0, 0, 0, 0, 0>>,
                              <<16, 12, 14, 3, 11, 3, 11>>, <<16, 15, 15, 9, 9, 9, 9>>>>]>>

\* PaletteType of types.ts: BW=0 CGA=1 GAMEBOY=2 CUSTOM=3 USER=4
\* GAMEBOY_CLASSIC=5 GAMEBOY_POCKET=6 GRAYSCALE=7 SEPIA=8
PaletteKey(paletteType) ==
    CASE paletteType = 0 -> "BW"
      [] paletteType = 1 -> "CGA"
      [] paletteType = 2 -> "GAMEBOY"
      [] paletteType = 5 -> "GAMEBOY_CLASSIC"
      [] paletteType = 6 -> "GAMEBOY_POCKET"
      [] paletteType = 7 -> "GRAYSCALE"
      [] paletteType = 8 -> "SEPIA"
      [] OTHER -> "BW"

\* variant of getPaletteColors: a built-in subset is the first numColors colours
getPaletteColorsPrefix(options) ==
    IF ~options.usePalette THEN <<>>
    ELSE IF options.paletteType = 3 THEN options.customPalette
    ELSE LET found == {i \in 1..Len(options.userPalettes) :
                         options.userPalettes[i].id = options.selectedUserPalette}
         IN  IF options.paletteType = 4 /\ found # {}
             THEN options.userPalettes[CHOOSE i \in found : \A j \in found : i <= j].colors
             ELSE LET paletteColors == PALETTES[PaletteKey(options.paletteType)]
                      numColors == IF options.paletteColors = 0 THEN 2
                                   ELSE options.paletteColors
                      len == Len(paletteColors)
                  IN  IF numColors >= len THEN paletteColors
                      ELSE [i \in 1..numColors |-> paletteColors[i]]
\* getPaletteColors.  customPalette and userPalettes are always present in
\* the options of the model; selectedUserPalette is an id.
getPaletteColors(options) ==
    IF ~options.usePalette THEN <<>>
    ELSE IF options.paletteType = 3 THEN options.customPalette
    ELSE LET found == {i \in 1..Len(options.userPalettes) :
                         options.userPalettes[i].id = options.selectedUserPalette}
         IN  IF options.paletteType = 4 /\ found # {}
             THEN options.userPalettes[CHOOSE i \in found : \A j \in found : i <= j].colors
             ELSE LET paletteColors == PALETTES[PaletteKey(options.paletteType)]
                      numColors == IF options.paletteColors = 0 THEN 2
                                   ELSE options.paletteColors
                      len == Len(paletteColors)
                  IN  IF numColors >= len THEN paletteColors
                      ELSE [i \in 1..numColors |->
                              paletteColors[Min(((i - 1) * len) \div numColors, len - 1) + 1]]

VARIABLES
    gl,                  \* WebGLService.gl: "null" or "ctx"
    program,             \* WebGLService.program: "null" or "prog"
    texture,             \* WebGLService.texture: "null" or "main"
    errorTexture,        \* WebGLService.errorTexture: "null" or "err"
    paletteTexture,      \* WebGLService.paletteTexture: "null" or "pal"
    canvas,              \* WebGLService.canvas: "null" or "canvas"
    lastPaletteOptions,  \* WebGLService.lastPaletteOptions: <<>> is ""
    gpu,                 \* the canvas's drawing buffer and the GL context state
    setupResult,         \* what the most recent setupWebGL call returned
    call,                \* the most recent ditherImage call: its arguments,
                         \* where it stands and, once settled, its result
    log,                 \* the GL commands the most recent operation has issued
    frag,                \* pixel-stage specification: one fragment's inputs and output
    stage,               \* palette-stage specification: one palette selection,
                         \* the colour list it resolves to and the buffer made of it
    app                  \* application specification: App's state and the
                         \* ditherImage calls it has made that have not returned

vars == <<gl, program, texture, errorTexture, paletteTexture, canvas,
          lastPaletteOptions, gpu, setupResult, call, log, frag, stage, app>>
svcVars == <<gl, program, texture, errorTexture, paletteTexture, canvas>>

\* ------------------------------------------------------------ the inputs
\* Bitmaps of the model are uniform-colour: every texel is rgb.
imgA == [id |-> "A", width |-> 2, height |-> 2, rgb |-> <<128, 128, 128>>]
imgB == [id |-> "B", width |-> 2, height |-> 1, rgb |-> <<200, 100, 50>>]
Images == {imgA, imgB}

\* App's initial options (part_000:110-126) with ditherAmount 1
DefaultOptions ==
    [ditherAmount |-> AmtDen, ditherType |-> 0, bayerSize |-> 1, downSampling |-> 1,
     contrast |-> 0, highlights |-> 0, midtones |-> 0, brightness |-> Q \div 2,
     usePalette |-> FALSE, paletteType |-> 0, paletteColors |-> 2,
     customPalette |-> <<BLACK, WHITE>>, userPalettes |-> DEFAULT_USER_PALETTES,
     selectedUserPalette |-> 1]
\* the options of the render calls: every mode with and without the palette,
\* the 2x2 matrix, full dither amount; the downsampling factors above 1; and
\* the custom palette with no colour in it
RenderOptions ==
    {[DefaultOptions EXCEPT !.ditherType = t, !.bayerSize = 0, !.usePalette = p] :
        t \in 0..2, p \in BOOLEAN}
    \cup {[DefaultOptions EXCEPT !.bayerSize = 0, !.downSampling = f] : f \in 2..MaxFactor}
    \cup {[DefaultOptions EXCEPT !.bayerSize = 0, !.usePalette = TRUE, !.paletteType = 3,
                                 !.customPalette = <<>>]}
\* values of the Ordered mode's per-pixel hash
RandVals == {Q \div 4, (3 * Q) \div 4}

Pixels(w, h) == (0..(w - 1)) \X (0..(h - 1))

\* ------------------------------------------------ the GL context state
NoTexture == [kind |-> "zero", rgb |-> <<0, 0, 0>>, w |-> 0, h |-> 0, data |-> <<>>]
DefaultUniforms ==
    [image |-> 0, errorTexture |-> 0, palette |-> 0, passIndex |-> 0,
     resolution |-> <<0, 0>>, ditherAmount |-> 0, ditherType |-> 0, bayerSize |-> 0,
     contrast |-> 0, highlights |-> 0, midtones |-> 0, brightness |-> 0,
     usePalette |-> FALSE]
\* OffscreenCanvas(1, 1) of DitherCanvas, before any context exists.
\* floatTextures: whether the canvas's context accepts texImage2D with format
\* RGBA and type FLOAT, which no call of getExtension has enabled: a context
\* that does not accept it leaves the texture as it was (and records a GL
\* error, which nothing reads)
InitGpu(floatTextures) ==
    [floatTextures |-> floatTextures, width |-> 1, height |-> 1, px |-> [p \in Pixels(1, 1) |-> <<0, 0, 0, 0>>],
     viewport |-> <<1, 1>>, framebuffer |-> "canvas", active |-> 0,
     units |-> [n \in 0..2 |-> "none"],
     tex |-> [main |-> NoTexture, err |-> NoTexture, pal |-> NoTexture],
     u |-> DefaultUniforms]

\* the texture a sampler uniform reads: the one bound to the unit it names.
\* A unit with no texture gives (0,0,0); so does, here, a unit still holding
\* a texture object of an earlier setupWebGL: every sampler the shader reads
\* has had its unit bound again by the call that draws.
Bound(g, unit) ==
    LET t == g.units[unit]
    IN  IF t \in {"main", "err", "pal"} THEN g.tex[t] ELSE NoTexture
\* the u_image / u_errorTexture fetch at a fragment: NEAREST or LINEAR at a
\* texel centre of a texture as large as the viewport gives that texel
FetchTexel(t) ==
    IF t.kind = "solid" THEN UnormVec(t.rgb)
    ELSE IF t.kind = "palette" THEN UnormVec(PaletteEntry(t.data, 0))
    ELSE <<0, 0, 0>>

\* gl.drawArrays(TRIANGLE_STRIP, 0, 4): the quad covers the viewport; every
\* pixel of the drawing buffer inside it gets vec4(main(), 1.)
Shade(g, rand, p) ==
    LET c == main(g.u, p[1], p[2], FetchTexel(Bound(g, g.u.image)),
                  FetchTexel(Bound(g, g.u.errorTexture)), Bound(g, g.u.palette),
                  rand[p])
    IN  <<ToByte(c[1]), ToByte(c[2]), ToByte(c[3]), 255>>
drawArrays(g, rand) ==
    [g EXCEPT !.px = [p \in DOMAIN g.px |->
        IF p[1] < g.viewport[1] /\ p[2] < g.viewport[2]
        THEN Shade(g, rand, p) ELSE g.px[p]]]

\* One GL command (or one assignment to the canvas) and its effect on the
\* context state.  A command is [op, a, b]; `a` and `b` are its arguments.
Cmd(op, a, b) == [op |-> op, a |-> a, b |-> b]
BindTarget(g, t) == [g EXCEPT !.units[g.active] = t]
TexImage(g, content) ==
    LET t == g.units[g.active]
    IN  IF t \in {"main", "err", "pal"} THEN [g EXCEPT !.tex[t] = content] ELSE g
Exec(g, c, rand) ==
    CASE c.op = "canvas.width" ->
            [g EXCEPT !.width = c.a,
                      !.px = [p \in Pixels(c.a, g.height) |-> <<0, 0, 0, 0>>]]
      [] c.op = "canvas.height" ->
            [g EXCEPT !.height = c.a,
                      !.px = [p \in Pixels(g.width, c.a) |-> <<0, 0, 0, 0>>]]
      [] c.op = "viewport" -> [g EXCEPT !.viewport = <<c.a, c.b>>]
      [] c.op = "clear" -> [g EXCEPT !.px = [p \in DOMAIN g.px |-> <<0, 0, 0, 0>>]]
      [] c.op = "activeTexture" -> [g EXCEPT !.active = c.a]
      [] c.op = "bindTexture" -> BindTarget(g, c.a)
      [] c.op = "texImage2D" ->
            IF c.a.kind = "zero" /\ ~g.floatTextures THEN g ELSE TexImage(g, c.a)
      [] c.op = "uniforms" ->
            [g EXCEPT !.u = [c.a EXCEPT !.errorTexture = g.u.errorTexture,
                                        !.palette = g.u.palette,
                                        !.passIndex = g.u.passIndex]]
      [] c.op = "uniform1i" -> [g EXCEPT !.u[c.a] = c.b]
      [] c.op = "drawArrays" -> drawArrays(g, rand)
      [] c.op = "bindFramebuffer" -> [g EXCEPT !.framebuffer = c.a]
      [] c.op = "useProgram" -> [g EXCEPT !.u = DefaultUniforms]
      [] c.op = "createTexture" ->
            [g EXCEPT !.tex[c.a] = NoTexture,
                      !.units = [n \in 0..2 |-> IF g.units[n] = c.a THEN "stale"
                                                ELSE g.units[n]]]
      [] OTHER -> g
\* what a command leaves in the log
LogEntry(g, c) ==
    [op |-> c.op,
     tex |-> IF c.op \in {"bindTexture", "createTexture", "bindFramebuffer"} THEN c.a
             ELSE IF c.op = "texImage2D" THEN g.units[g.active]
             ELSE IF c.op = "drawArrays" THEN g.framebuffer ELSE "-",
     name |-> IF c.op = "uniform1i" THEN c.a ELSE "-",
     n |-> IF c.op \in {"activeTexture", "canvas.width", "canvas.height"} THEN c.a
           ELSE IF c.op = "uniform1i" THEN c.b
           ELSE IF c.op = "drawArrays" THEN g.u.passIndex ELSE 0,
     in |-> c.in]
\* the commands cmds[1..n] run in order from context state g, with the log
Step(st, c, rand) ==
    [g |-> Exec(st.g, c, rand), log |-> Append(st.log, LogEntry(st.g, c))]
RECURSIVE Run(_, _, _, _)
Run(g, cmds, n, rand) ==
    IF n = 0 THEN [g |-> g, log |-> <<>>]
    ELSE CHOOSE next \in {Step(st, cmds[n], rand) : st \in {Run(g, cmds, n - 1, rand)}} :
            TRUE

\* texture contents as uploaded: an image (RGBA, UNSIGNED_BYTE), the palette
\* buffer (RGBA, UNSIGNED_BYTE), null data (RGBA, FLOAT)
ImageContent(img) ==
    [kind |-> "solid", rgb |-> img.rgb, w |-> img.width, h |-> img.height, data |-> <<>>]
PaletteContent(data) ==
    [kind |-> "palette", rgb |-> <<0, 0, 0>>, w |-> PaletteWidth, h |-> 1, data |-> data]
\* variant of the null-data upload: every texel (1, 1, 1)
NullContentOnes(w, h) ==
    [kind |-> "solid", rgb |-> <<255, 255, 255>>, w |-> w, h |-> h, data |-> <<>>]
\* texImage2D(..., FLOAT, null): every texel zero
NullContent(w, h) ==
    [kind |-> "zero", rgb |-> <<0, 0, 0>>, w |-> w, h |-> h, data |-> <<>>]
TexName(t) == IF t = "null" THEN "none" ELSE t
In(fn, cmds) == [i \in 1..Len(cmds) |-> [op |-> cmds[i].op, a |-> cmds[i].a,
                                         b |-> cmds[i].b, in |-> fn]]

\* ---------------------------------------------------- texture-service
\* loadImageTexture
loadImageTexture(tex, image) ==
    <<Cmd("bindTexture", tex, 0), Cmd("pixelStorei", 0, 0),
      Cmd("texImage2D", ImageContent(image), 0)>>

\* ---------------------------------------------------- palette-service
\* updatePaletteTexture
updatePaletteTexture(tex, colors) ==
    <<Cmd("bindTexture", tex, 0),
      Cmd("texImage2D", PaletteContent(updatePaletteData(colors)), 0)>>

\* --------------------------------------------------- renderer-service
\* variant of renderFloydSteinberg: pass 0 only
renderFloydSteinbergOnePass(tex, errTex, width, height) ==
    <<Cmd("bindTexture", errTex, 0),
      Cmd("texImage2D", NullContent(width, height), 0),
      Cmd("uniform1i", "passIndex", 0),
      Cmd("activeTexture", 0, 0),
      Cmd("bindTexture", tex, 0),
      Cmd("uniform1i", "image", 0),
      Cmd("activeTexture", 1, 0),
      Cmd("bindTexture", errTex, 0),
      Cmd("uniform1i", "errorTexture", 1),
      Cmd("bindFramebuffer", "canvas", 0),
      Cmd("drawArrays", 0, 0)>>
\* renderFloydSteinberg: the statements of its try block
renderFloydSteinberg(tex, errTex, width, height) ==
    <<Cmd("bindTexture", errTex, 0),
      Cmd("texImage2D", NullContent(width, height), 0),
      Cmd("uniform1i", "passIndex", 0),
      Cmd("activeTexture", 0, 0),
      Cmd("bindTexture", tex, 0),
      Cmd("uniform1i", "image", 0),
      Cmd("activeTexture", 1, 0),
      Cmd("bindTexture", errTex, 0),
      Cmd("uniform1i", "errorTexture", 1),
      Cmd("bindFramebuffer", "canvas", 0),
      Cmd("drawArrays", 0, 0),
      Cmd("uniform1i", "passIndex", 1),
      Cmd("activeTexture", 0, 0),
      Cmd("bindTexture", tex, 0),
      Cmd("activeTexture", 1, 0),
      Cmd("bindTexture", errTex, 0),
      Cmd("drawArrays", 0, 0)>>
\* renderStandardDither
renderStandardDither == <<Cmd("drawArrays", 0, 0)>>
\* setupShaderUniforms: u_image and the scalar uniforms, then the palette unit
ScalarUniforms(image, options) ==
    [image |-> 0, errorTexture |-> 0, palette |-> 0, passIndex |-> 0,
     resolution |-> <<image.width, image.height>>,
     ditherAmount |-> options.ditherAmount, ditherType |-> options.ditherType,
     bayerSize |-> options.bayerSize, contrast |-> options.contrast,
     highlights |-> options.highlights, midtones |-> options.midtones,
     brightness |-> options.brightness, usePalette |-> options.usePalette]
setupShaderUniforms(image, options, palTex) ==
    <<Cmd("activeTexture", 0, 0), Cmd("uniforms", ScalarUniforms(image, options), 0)>>
    \o (IF palTex # "null"
        THEN <<Cmd("activeTexture", 2, 0), Cmd("bindTexture", palTex, 0),
               Cmd("uniform1i", "palette", 2), Cmd("activeTexture", 0, 0)>>
        ELSE <<>>)

\* ------------------------------------------------------ webgl-service
\* JSON.stringify of the five palette fields, as the tuple of their values
paletteOptionsKey(options) ==
    <<options.usePalette, options.paletteType, options.paletteColors,
      options.customPalette, options.selectedUserPalette>>
\* variant of updatePaletteIfNeeded: the substituted list is [white, black]
updatePaletteIfNeededWhiteFirst(options, palTex, lastKey) ==
    IF palTex = "null" THEN <<>>
    ELSE IF lastKey = paletteOptionsKey(options) THEN <<>>
    ELSE LET colors == getPaletteColors(options)
         IN  updatePaletteTexture(palTex, IF Len(colors) > 0 THEN colors
                                          ELSE <<WHITE, BLACK>>)
             \o <<Cmd("lastPaletteOptions", paletteOptionsKey(options), 0)>>
\* updatePaletteIfNeeded (this.gl is not null where it is called)
updatePaletteIfNeeded(options, palTex, lastKey) ==
    IF palTex = "null" THEN <<>>
    ELSE IF lastKey = paletteOptionsKey(options) THEN <<>>
    ELSE LET colors == getPaletteColors(options)
         IN  updatePaletteTexture(palTex, IF Len(colors) > 0 THEN colors
                                          ELSE <<BLACK, WHITE>>)
             \o <<Cmd("lastPaletteOptions", paletteOptionsKey(options), 0)>>

\* ditherImage, the statements of its second try block after the
\* animation-frame wait, as the commands they issue in order
ditherImageCommands(image, options, tex, errTex, palTex, lastKey) ==
    In("ditherImage",
       <<Cmd("canvas.width", image.width, 0), Cmd("canvas.height", image.height, 0),
         Cmd("viewport", image.width, image.height),
         Cmd("clearColor", 0, 0), Cmd("clear", 0, 0)>>
       \o (IF tex # "null"
           THEN <<Cmd("activeTexture", 0, 0)>> \o loadImageTexture(tex, image)
           ELSE <<>>)
       \o <<Cmd("activeTexture", 0, 0)>>
       \o updatePaletteIfNeeded(options, palTex, lastKey)
       \o setupShaderUniforms(image, options, palTex))
    \o (IF options.ditherType = 1
        THEN (IF errTex # "null"
              THEN In("renderFloydSteinberg",
                      renderFloydSteinberg(TexName(tex), errTex, image.width, image.height))
              ELSE <<>>)
        ELSE In("ditherImage",
                <<Cmd("activeTexture", 0, 0), Cmd("bindTexture", TexName(tex), 0)>>)
             \o In("renderStandardDither", renderStandardDither))
\* what the call returns when no statement throws
ditherImageReturn(options, errTex) ==
    IF options.ditherType = 1 /\ errTex = "null" THEN "false" ELSE "true"
\* the catch blocks: of renderFloydSteinberg / renderStandardDither, which
\* return false, and of ditherImage (246-249), which returns false
RendererCatch == "false"
\* variant: the catch block rethrows, the promise rejects
DitherImageRethrow == "rejected"
DitherImageCatch == "false"
CatchOf(fn) == IF fn = "ditherImage" THEN DitherImageCatch ELSE RendererCatch
\* ---------------------------------------------------- image-utils
NoImage == [id |-> "-", width |-> 0, height |-> 0, rgb |-> <<0, 0, 0>>]
\* downSampleImage: the promise it returns.  outcome is what the browser
\* does: "scaled" (the new image loads), "original" (no 2D context: the
\* image itself is returned), "reject" (the new image fails to load)
\* variant of downSampleImage: the new size is rounded up
downSampleImageCeil(image, factor, outcome) ==
    LET newWidth == (image.width + factor - 1) \div factor
        newHeight == (image.height + factor - 1) \div factor
    IN  IF outcome = "reject" THEN [settled |-> "rejected", image |-> NoImage]
        ELSE IF outcome = "original" THEN [settled |-> "resolved", image |-> image]
        ELSE [settled |-> "resolved",
              image |-> [id |-> image.id, width |-> newWidth, height |-> newHeight,
                         rgb |-> image.rgb]]
downSampleImage(image, factor, outcome) ==
    LET newWidth == image.width \div factor
        newHeight == image.height \div factor
    IN  IF outcome = "reject" THEN [settled |-> "rejected", image |-> NoImage]
        ELSE IF outcome = "original" THEN [settled |-> "resolved", image |-> image]
        ELSE [settled |-> "resolved",
              image |-> [id |-> image.id, width |-> newWidth, height |-> newHeight,
                         rgb |-> image.rgb]]
\* a zero-sized canvas encodes to no image, so its image never loads
DownsampleOutcomes(image, factor) ==
    IF image.width \div factor > 0 /\ image.height \div factor > 0
    THEN {"scaled", "original", "reject"} ELSE {"original", "reject"}

\* ------------------------------------------------------ the actions
NoCall == [pc |-> "idle", image |-> NoImage, options |-> DefaultOptions,
           processed |-> NoImage, result |-> "none"]
NoFrag == [phase |-> "off"]
NoStage == [pc |-> "off"]
NoApp == [pc |-> "off"]

Init ==
    /\ gl = "null" /\ program = "null" /\ texture = "null"
    /\ errorTexture = "null" /\ paletteTexture = "null" /\ canvas = "null"
    /\ lastPaletteOptions = <<>>
    /\ gpu \in {InitGpu(floatTextures) : floatTextures \in BOOLEAN}
    /\ setupResult = "none"
    /\ call = NoCall
    /\ log = <<>>
    /\ frag = NoFrag
    /\ stage = NoStage
    /\ app = NoApp

\* a call that has returned: its promise holds the result, its arguments
\* are gone with its frame
Returned(result) == [NoCall EXCEPT !.pc = "done", !.result = result]
\* no ditherImage call is between its start and its return
Settled == call.pc \in {"idle", "done"}

\* setupWebGL(canvas) on the one canvas of the component.  outcome:
\*   "throw"        getContext throws
\*   "noContext"    getContext returns null twice
\*   "compileFail"  createShader returns null for a shader
\*   "linkFail"     createProgram returns null
\*   "ok"           the program links; `nulls` are the textures whose
\*                  gl.createTexture() returns null
SetupCatch == "false"
SetupResult(outcome) ==
    IF outcome = "throw" THEN SetupCatch
    ELSE IF outcome = "ok" THEN "true" ELSE "false"
\* createMainTexture / createErrorTexture: the context makes a new texture
\* object (the field's old object, if any, stays bound where it was) and,
\* unless the result is null, binds it
createMainTexture(isNull) ==
    <<Cmd("createTexture", "main", 0)>>
    \o (IF isNull THEN <<>> ELSE <<Cmd("bindTexture", "main", 0)>>)
createErrorTexture(isNull) ==
    <<Cmd("createTexture", "err", 0)>>
    \o (IF isNull THEN <<>> ELSE <<Cmd("bindTexture", "err", 0)>>)
\* createPaletteTexture
createPaletteTexture(isNull, colors) ==
    IF Len(colors) = 0 THEN <<>>
    ELSE <<Cmd("createTexture", "pal", 0)>>
         \o (IF isNull THEN <<>>
             ELSE <<Cmd("bindTexture", "pal", 0),
                    Cmd("texImage2D", PaletteContent(createPaletteData(colors)), 0)>>)
\* the GL commands of setupWebGL once the program has linked
setupWebGLCommands(outcome, nulls) ==
    IF outcome # "ok" THEN <<>>
    ELSE In("setupWebGL",
            <<Cmd("useProgram", 0, 0), Cmd("bufferData", 0, 0)>>
            \o createMainTexture("main" \in nulls)
            \o createErrorTexture("err" \in nulls)
            \o createPaletteTexture("pal" \in nulls, <<BLACK, WHITE>>))
NoRand == [p \in {} |-> 0]
setupWebGL(outcome, nulls) ==
    /\ Settled
    /\ canvas' = "canvas"
    /\ gl' = IF outcome = "throw" THEN gl
             ELSE IF outcome = "noContext" THEN "null" ELSE "ctx"
    /\ program' = IF outcome \in {"throw", "noContext", "compileFail"} THEN program
                  ELSE IF outcome = "linkFail" THEN "null" ELSE "prog"
    /\ texture' = IF outcome # "ok" THEN texture
                  ELSE IF "main" \in nulls THEN "null" ELSE "main"
    /\ errorTexture' = IF outcome # "ok" THEN errorTexture
                       ELSE IF "err" \in nulls THEN "null" ELSE "err"
    /\ paletteTexture' = IF outcome # "ok" THEN paletteTexture
                         ELSE IF "pal" \in nulls THEN "null" ELSE "pal"
    /\ \E cmds \in {setupWebGLCommands(outcome, nulls)} :
         \E end \in {Run(gpu, cmds, Len(cmds), NoRand)} :
            gpu' = end.g /\ log' = end.log
    /\ setupResult' = SetupResult(outcome)
    /\ UNCHANGED <<lastPaletteOptions, call, frag, stage, app>>

\* ditherImage up to its first await: the guard, then the downsampling
\* request or the animation-frame request
ditherImageStart(image, options) ==
    /\ Settled
    /\ call' = IF gl = "null" \/ program = "null" \/ canvas = "null"
               THEN Returned("false")
               ELSE [pc |-> IF options.downSampling > 1 THEN "downsampling" ELSE "raf",
                     image |-> image, options |-> options, processed |-> image,
                     result |-> "none"]
    /\ log' = <<>>
    /\ UNCHANGED <<svcVars, lastPaletteOptions, gpu, setupResult, frag, stage, app>>

\* variant of the catch block: the rejection leaves no image
afterDownsampleNoFallback(image, settled) ==
    IF settled.settled = "rejected"
    THEN [pc |-> "raf", processed |-> NoImage, result |-> "none"]
    ELSE [pc |-> "raf", processed |-> settled.image, result |-> "none"]
\* the try / catch around `await downSampleImage` (179-188): a rejection is
\* caught and the original image kept
afterDownsample(image, settled) ==
    IF settled.settled = "rejected"
    THEN [pc |-> "raf", processed |-> image, result |-> "none"]
    ELSE [pc |-> "raf", processed |-> settled.image, result |-> "none"]
ditherImageDownsampled(outcome) ==
    /\ call.pc = "downsampling"
    /\ outcome \in DownsampleOutcomes(call.image, call.options.downSampling)
    /\ LET next == afterDownsample(call.image,
                       downSampleImage(call.image, call.options.downSampling, outcome))
       IN  call' = [call EXCEPT !.pc = next.pc, !.processed = next.processed,
                                !.result = next.result]
    /\ UNCHANGED <<svcVars, lastPaletteOptions, gpu, setupResult, log, frag, stage, app>>

\* the hash values of the pixels of the frame's image; only the Ordered mode
\* reads them
RandChoices ==
    IF call.options.ditherType = 2
    THEN {[p \in Pixels(call.processed.width, call.processed.height) |->
             IF (p[1] + p[2]) % 2 = 0 THEN r[1] ELSE r[2]] :
          r \in {q \in RandVals \X RandVals : q[1] # q[2]}}
    ELSE {[p \in Pixels(call.processed.width, call.processed.height) |-> 0]}
\* the commands of the frame of the call in flight
FrameCommands ==
    ditherImageCommands(call.processed, call.options, texture, errorTexture,
                        paletteTexture, lastPaletteOptions)
\* the commands at which the browser may throw: the upload of the image
\* (texImage2D throws a SecurityError on a tainted image) and, one site in
\* each renderer's try block, the draws
ThrowPoints(cmds) ==
    {i \in 1..Len(cmds) : \/ cmds[i].op = "drawArrays"
                          \/ cmds[i].op = "texImage2D" /\ cmds[i].a.kind = "solid"}

\* ditherImage from the animation frame to its return: one task of the
\* event loop.  throwAt is the index of the command that throws, 0 for none.
ditherImageFrame(throwAt, rand) ==
    /\ call.pc = "raf"
    /\ \E cmds \in {FrameCommands} :
       /\ throwAt \in {0} \cup ThrowPoints(cmds)
       /\ LET done == IF throwAt = 0 THEN Len(cmds) ELSE throwAt - 1
          IN  \E end \in {Run(gpu, cmds, done, rand)} :
                /\ gpu' = end.g
                /\ log' = end.log
                /\ lastPaletteOptions' =
                     IF \E i \in 1..done : cmds[i].op = "lastPaletteOptions"
                     THEN paletteOptionsKey(call.options) ELSE lastPaletteOptions
                /\ call' = Returned(IF throwAt = 0
                                     THEN ditherImageReturn(call.options, errorTexture)
                                     ELSE CatchOf(cmds[throwAt].in))
    /\ UNCHANGED <<svcVars, setupResult, frag, stage, app>>

\* the render calls made: every option set on the gray image, the default
\* render on the other
Requests ==
    ({imgA} \X RenderOptions) \cup {<<imgB, [DefaultOptions EXCEPT !.bayerSize = 0]>>}
SetupOutcomes == {"throw", "noContext", "compileFail", "linkFail", "ok"}
NullSets == {{}, {"main"}, {"err"}, {"pal"}}

Next ==
    \/ \E outcome \in SetupOutcomes, nulls \in NullSets :
          /\ outcome # "ok" => nulls = {}
          /\ setupWebGL(outcome, nulls)
    \/ \E request \in Requests : ditherImageStart(request[1], request[2])
    \/ \E outcome \in {"scaled", "original", "reject"} : ditherImageDownsampled(outcome)
    \/ /\ call.pc = "raf"
       /\ \E throwAt \in {0} \cup ThrowPoints(FrameCommands), rand \in RandChoices :
             ditherImageFrame(throwAt, rand)

Spec == Init /\ [][Next]_vars

\* ------------------------------------------ the palette-cache specification
\* The same service and actions, on render calls that select a user palette:
\* setupWebGL succeeds and no statement throws.
\* the user palettes after the colours of palette 1 were replaced, under its
\* id, by those of palette 2
RecoloredUserPalettes ==
    [DEFAULT_USER_PALETTES EXCEPT ![1].colors = DEFAULT_USER_PALETTES[2].colors]
\* error-diffusion renders with user palette 1 of either list, and with the
\* built-in black and white
CacheOptions ==
    {[DefaultOptions EXCEPT !.ditherType = 1, !.bayerSize = 0, !.usePalette = TRUE,
                            !.paletteType = 4, !.userPalettes = ups] :
        ups \in {DEFAULT_USER_PALETTES, RecoloredUserPalettes}}
    \cup {[DefaultOptions EXCEPT !.ditherType = 1, !.bayerSize = 0, !.usePalette = TRUE]}
CacheRequests == Images \X CacheOptions
CacheNext ==
    \/ setupWebGL("ok", {})
    \/ \E request \in CacheRequests : ditherImageStart(request[1], request[2])
    \/ /\ call.pc = "raf"
       /\ \E rand \in RandChoices : ditherImageFrame(0, rand)
SpecCache == Init /\ [][CacheNext]_vars

\* ------------------------------------------- the pixel-stage specification
\* One invocation of the fragment shader's main() on inputs drawn from
\* bounded sets; the service stays as constructed.
\* source texels
PixelColors ==
    {<<0, 0, 0>>, <<255, 255, 255>>, <<128, 128, 128>>, <<127, 127, 127>>,
     <<64, 64, 64>>, <<200, 100, 50>>, <<17, 130, 240>>, <<255, 0, 0>>}
\* <<ditherType, bayerSize, passIndex, rand>>: what each mode reads
PixelModes ==
    {<<0, b, 0, 0>> : b \in 0..2} \cup {<<1, 0, n, 0>> : n \in 0..1}
    \cup {<<2, 0, 0, r>> : r \in RandVals}
\* <<contrast, brightness>>
PixelTones == {<<0, Q \div 2>>, <<1, Q \div 2>>, <<0, (3 * Q) \div 4>>}
\* the palette selections: none, custom [black, white], the built-in CGA
PixelPalettes ==
    {[usePalette |-> FALSE, paletteType |-> 0], [usePalette |-> TRUE, paletteType |-> 3],
     [usePalette |-> TRUE, paletteType |-> 1]}
PixelOptions(mode, amt, tone, sel) ==
    [DefaultOptions EXCEPT !.ditherType = mode[1], !.bayerSize = mode[2],
                           !.ditherAmount = amt, !.contrast = tone[1],
                           !.brightness = tone[2], !.usePalette = sel.usePalette,
                           !.paletteType = sel.paletteType, !.paletteColors = 4]
\* the palette texture after updatePaletteIfNeeded for these options
PixelPaletteTexture(options) ==
    LET colors == getPaletteColors(options)
    IN  PaletteContent(updatePaletteData(IF Len(colors) > 0 THEN colors
                                         ELSE <<BLACK, WHITE>>))
FragInput(src, x, y, mode, amt, tone, sel) ==
    LET options == PixelOptions(mode, amt, tone, sel)
    IN  [phase |-> "in", x |-> x, y |-> y, src |-> src, rand |-> mode[4],
         options |-> options,
         u |-> [ScalarUniforms([width |-> MaxCoord + 1, height |-> MaxCoord + 1], options)
                  EXCEPT !.passIndex = mode[3], !.errorTexture = 1, !.palette = 2],
         err |-> NullContent(MaxCoord + 1, MaxCoord + 1),
         pal |-> PixelPaletteTexture(options),
         out |-> ExactVec(<<0, 0, 0>>)]
PixelInit ==
    /\ gl = "null" /\ program = "null" /\ texture = "null"
    /\ errorTexture = "null" /\ paletteTexture = "null" /\ canvas = "null"
    /\ lastPaletteOptions = <<>>
    /\ gpu = InitGpu(FALSE)
    /\ setupResult = "none"
    /\ call = NoCall
    /\ log = <<>>
    /\ frag \in {FragInput(src, x, y, mode, amt, tone, sel) :
                   src \in PixelColors, x \in 0..MaxCoord, y \in 0..MaxCoord,
                   mode \in PixelModes, amt \in 0..AmtDen, tone \in PixelTones,
                   sel \in PixelPalettes}
    /\ stage = NoStage
    /\ app = NoApp
\* the shader runs on the fragment
shadeFragment ==
    /\ frag.phase = "in"
    /\ frag' = [frag EXCEPT !.phase = "out",
                            !.out = main(frag.u, frag.x, frag.y, UnormVec(frag.src),
                                         FetchTexel(frag.err), frag.pal, frag.rand)]
    /\ UNCHANGED <<svcVars, lastPaletteOptions, gpu, setupResult, call, log, stage, app>>
PixelNext == shadeFragment
SpecPixel == PixelInit /\ [][PixelNext]_vars

\* ----------------------------------------- the palette-stage specification
\* One palette selection taken through getPaletteColors, the substitution of
\* updatePaletteIfNeeded and the buffer loop of updatePaletteTexture /
\* createPaletteTexture; the service stays as constructed.
\* a list of n distinct colours: colour k is #XXXXXX with XX = k - 1
Ramp(n) ==
    [k \in 1..n |-> <<16, (k - 1) \div 16, (k - 1) % 16, (k - 1) \div 16, (k - 1) % 16,
                        (k - 1) \div 16, (k - 1) % 16>>]
\* the palette types with a case of their own in getPaletteColors' switch,
\* and 9, a value outside the enum
BuiltInTypes == {0, 1, 2, 5, 6, 7, 8, 9}
\* the selections: a built-in palette with a requested count, a custom
\* palette of 0..MaxColors colours, a user palette by id (0 and 4 are ids of
\* no palette), and no palette
PaletteSelections ==
    {[DefaultOptions EXCEPT !.usePalette = TRUE, !.paletteType = t, !.paletteColors = c] :
        t \in BuiltInTypes, c \in 0..MaxColors}
    \cup {[DefaultOptions EXCEPT !.usePalette = TRUE, !.paletteType = 3,
                                 !.customPalette = Ramp(n)] : n \in 0..MaxColors}
    \cup {[DefaultOptions EXCEPT !.usePalette = TRUE, !.paletteType = 4,
                                 !.selectedUserPalette = s] : s \in 0..4}
    \cup {DefaultOptions}
PaletteInit ==
    /\ gl = "null" /\ program = "null" /\ texture = "null"
    /\ errorTexture = "null" /\ paletteTexture = "null" /\ canvas = "null"
    /\ lastPaletteOptions = <<>>
    /\ gpu = InitGpu(FALSE)
    /\ setupResult = "none"
    /\ call = NoCall
    /\ log = <<>>
    /\ frag = NoFrag
    /\ stage \in {[pc |-> "options", options |-> o, colors |-> <<>>, list |-> <<>>,
                    data |-> <<>>, bytes |-> <<>>] : o \in PaletteSelections}
    /\ app = NoApp
\* `const colors = getPaletteColors(options)` of updatePaletteIfNeeded
resolvePalette ==
    /\ stage.pc = "options"
    /\ stage' = [stage EXCEPT !.pc = "resolved", !.colors = getPaletteColors(stage.options)]
    /\ UNCHANGED <<svcVars, lastPaletteOptions, gpu, setupResult, call, log, frag, app>>
\* the rest of updatePaletteIfNeeded: the list handed to updatePaletteTexture
\* and the 256 entries its loop writes
rasterizePalette ==
    /\ stage.pc = "resolved"
    /\ \E list \in {IF Len(stage.colors) > 0 THEN stage.colors ELSE <<BLACK, WHITE>>} :
          stage' = [stage EXCEPT !.pc = "rasterized", !.list = list,
                                 !.data = [i \in 1..PaletteWidth |->
                                             PaletteEntry(updatePaletteData(list), i - 1)]]
    /\ UNCHANGED <<svcVars, lastPaletteOptions, gpu, setupResult, call, log, frag, app>>
\* createPaletteTexture on the resolved list: no texture for an empty list,
\* else the bytes its loop writes
createPalette ==
    /\ stage.pc = "resolved"
    /\ Len(stage.colors) > 0
    /\ stage' = [stage EXCEPT !.pc = "created", !.list = stage.colors,
                              !.bytes = createPaletteBuffer(stage.colors)]
    /\ UNCHANGED <<svcVars, lastPaletteOptions, gpu, setupResult, call, log, frag, app>>
PaletteNext == resolvePalette \/ rasterizePalette \/ createPalette
SpecPalette == PaletteInit /\ [][PaletteNext]_vars

\* ------------------------------------------- the threshold specification
\* The Bayer branch of main() up to its threshold, for one fragment and one
\* value of u_bayerSize; the service stays as constructed.
\* u_bayerSize is an int uniform: the sizes of the options and two others
BayerSizes == {-1, 0, 1, 2, 3}
BayerInit ==
    /\ gl = "null" /\ program = "null" /\ texture = "null"
    /\ errorTexture = "null" /\ paletteTexture = "null" /\ canvas = "null"
    /\ lastPaletteOptions = <<>>
    /\ gpu = InitGpu(FALSE)
    /\ setupResult = "none"
    /\ call = NoCall
    /\ log = <<>>
    /\ frag \in {[phase |-> "coord", bayerSize |-> b, x |-> x, y |-> y, threshold |-> 0] :
                   b \in BayerSizes, x \in 0..MaxBayerCoord, y \in 0..MaxBayerCoord}
    /\ stage = NoStage
    /\ app = NoApp
\* `float threshold = getBayerThreshold(x, y)` with its x and y
lookupThreshold ==
    /\ frag.phase = "coord"
    /\ frag' = [frag EXCEPT !.phase = "threshold",
                            !.threshold = mainThreshold(frag.bayerSize, frag.x, frag.y)]
    /\ UNCHANGED <<svcVars, lastPaletteOptions, gpu, setupResult, call, log, stage, app>>
BayerNext == lookupThreshold
SpecBayer == BayerInit /\ [][BayerNext]_vars

\* ------------------------------------------- the application specification
\* App and DitherCanvas: the events of the page and the ditherImage calls
\* they make on the component's one WebGLService.  A call is in flight from
\* the event that makes it until its promise resolves: it waits first for
\* downSampleImage (factor above 1), then for an animation frame.  Of the
\* service there is app.ready, what setupWebGL returned in the mount effect,
\* and app.surface, the size of its canvas and its viewport; textures and
\* pixels stay out.
\* an image above the size at which handleImageLoaded turns downsampling on
imgL == [id |-> "L", width |-> 4000, height |-> 3000, rgb |-> <<128, 128, 128>>]
AppImages == {imgA, imgL}
\* what DitherControls hands to handleOptionsChange: the initial options
\* with each downsampling factor
AppOptions ==
    {[DefaultOptions EXCEPT !.downSampling = f] : f \in 1..MaxAppFactor}
AppInit ==
    /\ gl = "null" /\ program = "null" /\ texture = "null"
    /\ errorTexture = "null" /\ paletteTexture = "null" /\ canvas = "null"
    /\ lastPaletteOptions = <<>>
    /\ gpu = InitGpu(FALSE)
    /\ setupResult = "none"
    /\ call = NoCall
    /\ log = <<>>
    /\ frag = NoFrag
    /\ stage = NoStage
    /\ app \in {[pc |-> "mounted", ready |-> r, image |-> NoImage,
                  options |-> DefaultOptions, downsampling |-> {}, frames |-> <<>>,
                  made |-> 0, surface |-> [width |-> 1, height |-> 1, viewport |-> <<1, 1>>],
                  returned |-> NoCall, rendered |-> 0, copies |-> {}, visible |-> 0] :
                    r \in BOOLEAN}
\* the calls of the application that have not returned
InFlight == Cardinality(app.downsampling) + Len(app.frames)
\* renderFrame(options, image) reaches `await ditherImage(image, options)`;
\* `commit` tells whether handleOptionsChange's setOptions follows the call.
\* A service that is not set up returns false at its guard: the call is
\* over within the event.
renderFrame(a, image, options, commit) ==
    LET c == [n |-> a.made + 1, image |-> image, options |-> options,
              processed |-> image, commit |-> commit]
    IN  IF ~a.ready
        THEN [a EXCEPT !.options = IF commit THEN options ELSE a.options]
        ELSE IF options.downSampling > 1
        THEN [a EXCEPT !.made = a.made + 1, !.downsampling = a.downsampling \cup {c}]
        ELSE [a EXCEPT !.made = a.made + 1, !.frames = Append(a.frames, c)]
\* App.handleImageLoaded: the image becomes the state's image, a large one
\* turns downsampling to 2, and renderFrame(undefined, newImage) runs with
\* the options of the last commit; DitherCanvas's effect on `image` sizes the
\* offscreen and the visible canvas to the new image, which clears both
handleImageLoaded(newImage) ==
    /\ app.pc = "mounted"
    /\ app.made < MaxCalls
    /\ app' = [renderFrame(app, newImage, app.options, FALSE)
                EXCEPT !.image = newImage,
                       !.surface.width = newImage.width,
                       !.surface.height = newImage.height,
                       !.rendered = 0,
                       !.visible = 0,
                       !.options = IF newImage.width > LargeSide
                                      \/ newImage.height > LargeSide
                                   THEN [app.options EXCEPT !.downSampling = 2]
                                   ELSE app.options]
    /\ UNCHANGED <<svcVars, lastPaletteOptions, gpu, setupResult, call, log, frag, stage>>
\* App.handleOptionsChange: renderFrame(newOptions) on the state's image (no
\* call without one), then setOptions
handleOptionsChange(newOptions) ==
    /\ app.pc = "mounted"
    /\ app.made < MaxCalls
    /\ app' = IF app.image = NoImage THEN [app EXCEPT !.options = newOptions]
              ELSE renderFrame(app, app.image, newOptions, TRUE)
    /\ UNCHANGED <<svcVars, lastPaletteOptions, gpu, setupResult, call, log, frag, stage>>
\* downSampleImage settles for one of the calls waiting for it: the call
\* keeps the image it resolved with, or its own on a rejection, and requests
\* its animation frame
appDownsampled(c, outcome) ==
    /\ c \in app.downsampling
    /\ outcome \in DownsampleOutcomes(c.image, c.options.downSampling)
    /\ LET next == afterDownsample(c.image,
                       downSampleImage(c.image, c.options.downSampling, outcome))
       IN  app' = [app EXCEPT !.downsampling = app.downsampling \ {c},
                              !.frames = Append(app.frames,
                                                [c EXCEPT !.processed = next.processed])]
    /\ UNCHANGED <<svcVars, lastPaletteOptions, gpu, setupResult, call, log, frag, stage>>
\* the animation frame of the call that asked first: ditherImage sizes the
\* canvas and the viewport to its working image and returns `result`;
\* renderFrame, then the handler, run to their ends: after a true result
\* renderFrame starts the copy of the offscreen canvas (convertToBlob takes
\* its bitmap now) without waiting for it, and calls onProcessComplete.
\* `rendered` is the call whose render the offscreen canvas holds, 0 when
\* it holds none
appFrame(result) ==
    /\ app.frames # <<>>
    /\ LET c == Head(app.frames)
       IN  app' = [app EXCEPT !.frames = Tail(app.frames),
                              !.options = IF c.commit THEN c.options ELSE app.options,
                              !.surface = [width |-> c.processed.width,
                                           height |-> c.processed.height,
                                           viewport |-> <<c.processed.width,
                                                          c.processed.height>>],
                              !.returned = [pc |-> "done", image |-> c.image,
                                            options |-> c.options,
                                            processed |-> c.processed,
                                            result |-> result],
                              !.rendered = IF result = "true" THEN c.n ELSE 0,
                              !.copies = IF result = "true" THEN app.copies \cup {c.n}
                                         ELSE app.copies]
    /\ UNCHANGED <<svcVars, lastPaletteOptions, gpu, setupResult, call, log, frag, stage>>
\* the copy started for render n ends: the blob is encoded and decoded and
\* the last `then` sizes the visible canvas and draws the bitmap on it, or
\* the chain rejects and the visible canvas stays as it is
appCopy(n, outcome) ==
    /\ app.pc = "mounted"
    /\ n \in app.copies
    /\ app' = [app EXCEPT !.copies = app.copies \ {n},
                          !.visible = IF outcome = "drawn" THEN n ELSE app.visible]
    /\ UNCHANGED <<svcVars, lastPaletteOptions, gpu, setupResult, call, log, frag, stage>>
AppNext ==
    \/ \E newImage \in AppImages : handleImageLoaded(newImage)
    \/ \E newOptions \in AppOptions : handleOptionsChange(newOptions)
    \/ \E c \in app.downsampling, outcome \in {"scaled", "original", "reject"} :
          appDownsampled(c, outcome)
    \/ \E result \in {"true", "false"} : appFrame(result)
    \/ \E n \in 1..MaxCalls, outcome \in {"drawn", "rejected"} : appCopy(n, outcome)
SpecApp == AppInit /\ [][AppNext]_vars

\* ------------------------------------------------------- the properties
\* a fragment output is exactly black / exactly white
IsBlack(out) == \A c \in 1..3 : out[c].n = 0
IsWhite(out) == \A c \in 1..3 : out[c].n = out[c].d
\* the shader has run on the fragment
Shaded == frag.phase = "out"
\* the fragment's colour after preprocessImage
Preprocessed == preprocessImage(UnormVec(frag.src), frag.u)

\* the draws of the log, and the draws together with the re-specifications
\* of the error texture
IsDraw(e) == e.op = "drawArrays"
IsErrorRespec(e) == e.op = "texImage2D" /\ e.tex = "err"
IsDrawOrRespec(e) == IsDraw(e) \/ IsErrorRespec(e)
Draws == SelectSeq(log, IsDraw)
\* a ditherImage call has returned after its frame reached the dispatch on
\* ditherType: its commands are the log, its uniforms those of the program
FrameDispatched ==
    /\ call.pc = "done"
    /\ \E i \in 1..Len(log) : log[i].op = "uniforms"
ErrorDiffusionDispatched == FrameDispatched /\ gpu.u.ditherType = 1
\* the two passes of a completed error-diffusion render, in pipeline terms:
\* what pass 0 wrote for the pixel, from the state the render left
PassZeroOutput(p) ==
    main([gpu.u EXCEPT !.passIndex = 0], p[1], p[2], FetchTexel(Bound(gpu, gpu.u.image)),
         FetchTexel(Bound(gpu, gpu.u.errorTexture)), Bound(gpu, gpu.u.palette), 0)
PreprocessedTexel == preprocessImage(FetchTexel(Bound(gpu, gpu.u.image)), gpu.u)

\* C1: in an error-diffusion render, pass 0 stores for every pixel the
\* quantization error (preprocessed colour minus quantized colour) into the
\* error texture, so that what pass 1 reads there at a pixel is that pixel's
\* pass-0 error.
C1_PassOneReadsPassZeroError ==
    (ErrorDiffusionDispatched /\ call.result = "true")
    => \A p \in DOMAIN gpu.px : \A c \in 1..3 :
         RatEq(Exact(PreprocessedTexel[c] - FetchTexel(Bound(gpu, gpu.u.errorTexture))[c]),
               PassZeroOutput(p)[c])

\* the draws and error-texture re-specifications of the log are: the
\* re-specification, a draw to the canvas with pass index 0, a draw to the
\* canvas with pass index 1, each over the whole surface
TwoPasses ==
    LET events == SelectSeq(log, IsDrawOrRespec)
    IN  /\ Len(events) = 3
        /\ IsErrorRespec(events[1])
        /\ IsDraw(events[2]) /\ events[2].n = 0 /\ events[2].tex = "canvas"
        /\ IsDraw(events[3]) /\ events[3].n = 1 /\ events[3].tex = "canvas"
        /\ gpu.viewport = <<gpu.width, gpu.height>>
        /\ gpu.tex.err = IF gpu.floatTextures
                          THEN NullContent(gpu.u.resolution[1], gpu.u.resolution[2])
                          ELSE NoTexture
\* C2 as stated: every error-diffusion render call issues exactly two
\* full-surface draws to the same destination, the first with pass index 0
\* and the second with pass index 1, and the error texture is re-specified,
\* zero-filled and sized to the image, before the first and not between them.
C2_TwoPassesEveryCall == ErrorDiffusionDispatched => TwoPasses
\* C2 amended: every error-diffusion render call that returns true has
\* issued exactly those two draws, pass index 0 then 1, to the canvas, with
\* the re-specification of the error texture (null data, the size of the
\* image) issued before the first and not between them; the texture is
\* zero-filled at that size where the context accepts the re-specification.
\* A call that returns false has issued fewer draws, in the same order, and
\* none at all when the service has no error texture.
C2_TwoPassesWhenTrue ==
    ErrorDiffusionDispatched
    => IF call.result = "true" THEN TwoPasses
       ELSE /\ Len(Draws) < 2
            /\ \A i \in 1..Len(Draws) : Draws[i].n = i - 1
            /\ errorTexture = "null" => Draws = <<>>
\* an error-diffusion render has returned true
C2_Witness == ErrorDiffusionDispatched /\ call.result = "true" /\ Len(Draws) = 2

\* a step in which a ditherImage call returns, from its guard or from its frame
Returns == call.pc # "done" /\ call'.pc = "done"
NoDraw(l) == SelectSeq(l, IsDraw) = <<>>

\* C3: a render call that returns false leaves the destination surface as
\* the previous render left it: its size and its pixels are unchanged.
C3_FailedRenderLeavesSurface ==
    [][(Returns /\ call'.result = "false")
       => (/\ gpu'.width = gpu.width /\ gpu'.height = gpu.height
           /\ gpu'.px = gpu.px)]_vars

\* C4: if creating the source texture, the error texture or the palette
\* texture returned null, then setupWebGL returned false, or every later
\* ditherImage call returns false without issuing a draw, for every ditherType.
C4_NullTextureReported ==
    [][(/\ Returns
        /\ setupResult = "true"
        /\ texture = "null" \/ errorTexture = "null" \/ paletteTexture = "null")
       => (call'.result = "false" /\ NoDraw(log'))]_vars

\* C5: while the most recent setupWebGL call has returned false, every
\* ditherImage call returns false and issues no draw, also when an earlier
\* setupWebGL call on the same instance had succeeded.
C5_FailedSetupBlocksRender ==
    [][(Returns /\ setupResult = "false")
       => (call'.result = "false" /\ NoDraw(log'))]_vars

\* C6: no public operation throws: setupWebGL returns a boolean, and the
\* promise of ditherImage resolves to a boolean and never rejects, whatever
\* GL call throws and whether or not the downsampling rejects.
C6_NeverThrows ==
    /\ setupResult \in {"none", "true", "false"}
    /\ call.pc \in {"idle", "downsampling", "raf", "done"}
    /\ call.pc = "done" => call.result \in {"true", "false"}
    /\ call.pc # "done" => call.result = "none"
\* a call has returned false from a frame that a throwing upload of the
\* image cut short: the surface is resized, no uniform is set
C6_Witness ==
    /\ call.pc = "done" /\ call.result = "false"
    /\ log # <<>>
    /\ \A i \in 1..Len(log) : log[i].op \notin {"texImage2D", "uniforms", "drawArrays"}
    /\ texture # "null"

\* the Bayer render of the 2x2 gray image with the 2x2 matrix, full amount,
\* no palette and default tone has returned true
GrayBayerRendered ==
    /\ FrameDispatched /\ call.result = "true" /\ Len(Draws) = 1
    /\ gpu.units[gpu.u.image] = "main" /\ gpu.tex.main = ImageContent(imgA)
    /\ gpu.u = [ScalarUniforms(imgA, [DefaultOptions EXCEPT !.bayerSize = 0])
                   EXCEPT !.palette = gpu.u.palette]
WhitePixels == {p \in DOMAIN gpu.px : gpu.px[p] = <<255, 255, 255, 255>>}
BlackPixels == {p \in DOMAIN gpu.px : gpu.px[p] = <<0, 0, 0, 255>>}
\* C10 as stated: for the 2x2 image of solid (128,128,128) rendered with the
\* Bayer mode, the 2x2 matrix, ditherAmount = 1, no palette and default
\* tone, every pixel is black or white, two white and two black.
C10_TwoWhiteTwoBlack ==
    GrayBayerRendered
    => (/\ WhitePixels \cup BlackPixels = DOMAIN gpu.px
        /\ Cardinality(WhitePixels) = 2 /\ Cardinality(BlackPixels) = 2)
\* C10 amended: in that render every pixel is black or white, three white
\* and one black: luminance 128/255 is above the thresholds 0, 1/4 and 1/2
\* and below 3/4 only.
C10_ThreeWhiteOneBlack ==
    GrayBayerRendered
    => (/\ WhitePixels \cup BlackPixels = DOMAIN gpu.px
        /\ Cardinality(WhitePixels) = 3 /\ Cardinality(BlackPixels) = 1
        /\ \A p \in DOMAIN gpu.px :
              p \in BlackPixels <=> getBayerThreshold2x2(p[1], p[2]) = 3 * (Q \div 4))
C10_Witness == GrayBayerRendered /\ Cardinality(WhitePixels) = 3

\* C7: with usePalette = true and the palette [black, white], for every
\* dither type, every dither amount and every source pixel the output pixel
\* is exactly black or exactly white.
C7_BlackOrWhiteUnderPalette ==
    (/\ Shaded
     /\ frag.options.usePalette
     /\ getPaletteColors(frag.options) = <<BLACK, WHITE>>)
    => (IsBlack(frag.out) \/ IsWhite(frag.out))

\* C8 as stated: with ditherAmount = 1 and usePalette = false, for every
\* dither type every output pixel is black or white.
C8_TwoTonesEveryType ==
    (Shaded /\ frag.options.ditherAmount = AmtDen /\ ~frag.options.usePalette)
    => (IsBlack(frag.out) \/ IsWhite(frag.out))
\* C8 amended: with ditherAmount = 1 and usePalette = false, the Bayer and
\* the Ordered mode output black or white; the error-diffusion mode outputs,
\* in each channel, floor(2c)/2 of the preprocessed channel c: 0, 1/2 or 1.
C8_TwoTonesBayerOrdered ==
    (Shaded /\ frag.options.ditherAmount = AmtDen /\ ~frag.options.usePalette)
    => IF frag.options.ditherType \in {0, 2}
       THEN IsBlack(frag.out) \/ IsWhite(frag.out)
       ELSE \A c \in 1..3 :
              /\ frag.out[c] = Exact(((2 * Preprocessed[c]) \div Q) * (Q \div 2))
              /\ frag.out[c].n \in {0, Q \div 2, Q}
\* an error-diffusion fragment at full amount whose output is a mid-gray
C8_Witness ==
    /\ Shaded /\ frag.options.ditherAmount = AmtDen /\ ~frag.options.usePalette
    /\ frag.options.ditherType = 1
    /\ \A c \in 1..3 : frag.out[c] = Exact(Q \div 2)

\* C9 as stated: with ditherAmount = 0 and usePalette = false, the output of
\* the Bayer mode and of the Ordered mode is floor(color*16)/16 per channel
\* of the preprocessed colour.
C9_QuantizedBayerAndOrdered ==
    (/\ Shaded /\ frag.options.ditherAmount = 0 /\ ~frag.options.usePalette
     /\ frag.options.ditherType \in {0, 2})
    => \A c \in 1..3 :
         frag.out[c] = Exact(((16 * Preprocessed[c]) \div Q) * (Q \div 16))
\* C9 amended: with ditherAmount = 0 and usePalette = false, the Bayer mode
\* outputs floor(color*16)/16 per channel of the preprocessed colour, and the
\* Ordered mode outputs the preprocessed colour itself, not quantized; the
\* threshold contributes to neither.
C9_QuantizedBayerPlainOrdered ==
    (Shaded /\ frag.options.ditherAmount = 0 /\ ~frag.options.usePalette)
    => /\ frag.options.ditherType = 0 =>
            \A c \in 1..3 :
              frag.out[c] = Exact(((16 * Preprocessed[c]) \div Q) * (Q \div 16))
       /\ frag.options.ditherType = 2 => frag.out = ExactVec(Preprocessed)
\* an Ordered fragment at amount 0 whose colour is not a multiple of 1/16
C9_Witness ==
    /\ Shaded /\ frag.options.ditherAmount = 0 /\ ~frag.options.usePalette
    /\ frag.options.ditherType = 2
    /\ frag.out = ExactVec(Preprocessed)
    /\ \E c \in 1..3 : Preprocessed[c] % (Q \div 16) # 0

\* ---------------------------------------------- the palette-stage properties
\* the stage has written the buffer
Rasterized == stage.pc = "rasterized"
\* the number (from 0) of the colour of `rgbs` that buffer entry i holds; the
\* length of the list if the entry holds none of them
ColorNumber(rgbs, i) ==
    LET holds == {k \in 1..Len(rgbs) : stage.data[i + 1] = rgbs[k]}
    IN  IF holds = {} THEN Len(rgbs) ELSE (CHOOSE k \in holds : \A j \in holds : k <= j) - 1
\* the colour number of every entry of the buffer
ColorNumbers ==
    CHOOSE idx \in {[i \in 0..(Len(stage.data) - 1) |-> ColorNumber(rgbs, i)] :
                      rgbs \in {[k \in 1..Len(stage.list) |-> hexToRgb(stage.list[k])]}} : TRUE

\* C11: a list of n colours, 2 <= n <= 16, is rasterized into 256 entries;
\* entry i holds colour number min(floor(i * n / 255), n - 1); the colour
\* number never decreases with i; each of the n colours has one non-empty
\* contiguous band (exactly one entry starts a run of it), so the bands are
\* disjoint, and no entry holds a colour that is not in the list.
C11_RasterBands ==
    (Rasterized /\ Len(stage.list) >= 2 /\ Len(stage.list) <= 16) =>
        \A n \in {Len(stage.list)} : \A idx \in {ColorNumbers} :
            /\ DOMAIN idx = 0..255
            /\ \A i \in 0..255 :
                  /\ idx[i] = Min((i * n) \div 255, n - 1)
                  /\ idx[i] < n
                  /\ i < 255 => idx[i] <= idx[i + 1]
            /\ \A k \in 0..(n - 1) :
                  Cardinality({i \in 0..255 : idx[i] = k /\ (i = 0 \/ idx[i - 1] # k)}) = 1
\* a list of 16 colours has been rasterized: its first colour is at entry 0,
\* its last at entry 255
C11_Witness ==
    /\ Rasterized /\ Len(stage.list) = 16
    /\ \A idx \in {ColorNumbers} : idx[0] = 0 /\ idx[255] = 15

\* the selection has been resolved to a colour list
Resolved == stage.pc \in {"resolved", "rasterized"}
\* the user palettes whose id is the selected one
SelectedUserPalettes ==
    {p \in {stage.options.userPalettes[i] : i \in 1..Len(stage.options.userPalettes)} :
        p.id = stage.options.selectedUserPalette}
\* the selection falls to a built-in palette
BuiltInSelected ==
    /\ stage.options.usePalette
    /\ stage.options.paletteType # 3
    /\ stage.options.paletteType = 4 => SelectedUserPalettes = {}
\* the built-in list of the selection: the named one, black and white for
\* any other type
BuiltInList ==
    LET t == stage.options.paletteType
    IN  IF t = 1 THEN PALETTES.CGA ELSE IF t = 2 THEN PALETTES.GAMEBOY
        ELSE IF t = 5 THEN PALETTES.GAMEBOY_CLASSIC
        ELSE IF t = 6 THEN PALETTES.GAMEBOY_POCKET
        ELSE IF t = 7 THEN PALETTES.GRAYSCALE
        ELSE IF t = 8 THEN PALETTES.SEPIA ELSE PALETTES.BW

\* C12: a custom palette and a user palette found by id are returned
\* unchanged; a built-in palette of length len with requested count c < len
\* (c >= 1; no count, 0, stands for 2) yields exactly c colours, colour i
\* being the built-in colour at index min(floor(i * len / c), len - 1), the
\* chosen indices strictly increasing; with c >= len the whole built-in list
\* is returned.
C12_ResolvedSelection ==
    (Resolved /\ stage.options.usePalette) =>
        /\ stage.options.paletteType = 3 => stage.colors = stage.options.customPalette
        /\ (stage.options.paletteType = 4 /\ SelectedUserPalettes # {}) =>
              \E p \in SelectedUserPalettes : stage.colors = p.colors
        /\ BuiltInSelected =>
              \A len \in {Len(BuiltInList)} :
              \A c \in {IF stage.options.paletteColors = 0 THEN 2
                        ELSE stage.options.paletteColors} :
                 /\ c >= len => stage.colors = BuiltInList
                 /\ c < len =>
                      /\ Len(stage.colors) = c
                      /\ \A i \in 0..(c - 1) :
                            /\ stage.colors[i + 1] =
                                 BuiltInList[Min((i * len) \div c, len - 1) + 1]
                            /\ i < c - 1 =>
                                 Min((i * len) \div c, len - 1)
                                   < Min(((i + 1) * len) \div c, len - 1)
\* three colours of the five-colour GRAYSCALE palette have been resolved:
\* its colours 0, 1 and 3
C12_Witness ==
    /\ Resolved /\ stage.options.usePalette
    /\ stage.options.paletteType = 7 /\ stage.options.paletteColors = 3
    /\ stage.colors = <<PALETTES.GRAYSCALE[1], PALETTES.GRAYSCALE[2], PALETTES.GRAYSCALE[4]>>

\* C13: for every options value with usePalette = true the colour list that
\* is rasterized into the palette texture has at least 2 and at most 16
\* colours.
C13_TwoToSixteenColors ==
    (Rasterized /\ stage.options.usePalette) =>
        (Len(stage.list) >= 2 /\ Len(stage.list) <= 16)

\* the frame of a ditherImage call runs in this step
FrameStep == call.pc = "raf" /\ call'.pc = "done"
\* the frame got past updatePaletteIfNeeded, to setupShaderUniforms
PaletteStepPassed(l) == \E i \in 1..Len(l) : l[i].op = "uniforms"
\* the draws a render of the given type issues when nothing fails
DrawsOf(ditherType) == IF ditherType = 1 THEN 2 ELSE 1

\* C14: when the resolved palette is empty (usePalette = true with an empty
\* custom palette), the render leaves the two-colour list [black, white] in
\* the palette texture, and the call's result is what its draws make it:
\* true exactly when all of them were issued.
C14_EmptyPaletteSubstituted ==
    [][(/\ FrameStep
        /\ call.options.usePalette /\ getPaletteColors(call.options) = <<>>
        /\ paletteTexture # "null"
        /\ PaletteStepPassed(log'))
       => /\ gpu'.tex.pal = PaletteContent(<<BLACK, WHITE>>)
          /\ call'.result = "true"
               <=> Len(SelectSeq(log', IsDraw)) = DrawsOf(call.options.ditherType)]_vars
\* a render with the empty custom palette has uploaded the palette texture
\* and returned true
C14_Witness ==
    /\ call.pc = "done" /\ call.result = "true"
    /\ gpu.u.usePalette
    /\ lastPaletteOptions = <<TRUE, 3, 2, <<>>, 1>>
    /\ \E i \in 1..Len(log) : log[i].op = "texImage2D" /\ log[i].tex = "pal"
    /\ gpu.tex.pal = PaletteContent(<<BLACK, WHITE>>)

\* the frame's log holds an upload to the palette texture
PaletteUploaded(l) == \E i \in 1..Len(l) : l[i].op = "texImage2D" /\ l[i].tex = "pal"
\* the colour list resolved by the render whose palette fields are `key`:
\* lastPaletteOptions is the key of the latest render that went through
\* updatePaletteIfNeeded with a palette texture
ResolvedOf(key) ==
    getPaletteColors([DefaultOptions EXCEPT !.usePalette = key[1], !.paletteType = key[2],
                                            !.paletteColors = key[3],
                                            !.customPalette = key[4],
                                            !.selectedUserPalette = key[5]])

\* C15: over any sequence of render calls on one instance, the palette
\* texture is rewritten during a render only if the colour list resolved for
\* that render differs from the colour list resolved for the previous
\* render: two consecutive renders that resolve to the same list cause no
\* second upload.
C15_UploadOnlyOnNewList ==
    [][(FrameStep /\ lastPaletteOptions # <<>> /\ PaletteUploaded(log'))
       => getPaletteColors(call.options) # ResolvedOf(lastPaletteOptions)]_vars

\* a Bayer or Ordered render has returned true
StandardRendered ==
    FrameDispatched /\ gpu.u.ditherType \in {0, 2} /\ call.result = "true"

\* C16: in a Bayer or Ordered render exactly one full-surface draw is
\* issued, and during that draw the pass index seen by the pixel stage is
\* the single-pass value (the one a first render on the instance sees),
\* whatever renders, error-diffusion renders included, preceded it on the
\* same instance.
C16_OneDrawAtSentinel ==
    StandardRendered
    => /\ Len(Draws) = 1
       /\ Draws[1].tex = "canvas"
       /\ gpu.viewport = <<gpu.width, gpu.height>>
       /\ Draws[1].n = DefaultUniforms.passIndex

\* ------------------------------------------------ the application properties
\* C17: the application never has two ditherImage calls in flight on the
\* same WebGLService instance: under any sequence of image-loaded and
\* option-change events, a new render request reaches the service only after
\* the previous call's promise has resolved.
C17_OneCallInFlight == app.pc = "mounted" => InFlight <= 1

\* ---------------------------------------------- the repeated-render properties
\* the instance as its setupWebGL left it, before any render: the context
\* of the same canvas, the same textures created
FreshGpu ==
    LET nulls == {t \in {"main", "err", "pal"} :
                    \/ t = "main" /\ texture = "null"
                    \/ t = "err" /\ errorTexture = "null"
                    \/ t = "pal" /\ paletteTexture = "null"}
        cmds == setupWebGLCommands("ok", nulls)
    IN  Run(InitGpu(gpu.floatTextures), cmds, Len(cmds), NoRand).g
\* the surface a render of the call in flight leaves when it is the first
\* render of the instance
FirstRenderPixels(rand) ==
    LET cmds == ditherImageCommands(call.processed, call.options, texture, errorTexture,
                                    paletteTexture, <<>>)
    IN  Run(FreshGpu, cmds, Len(cmds), rand).g.px

\* C18: two error-diffusion render calls with identical image and options on
\* the same instance produce identical output, whatever renders ran between
\* or before them: a call that returns true leaves the pixels that the same
\* call leaves as the first render of the instance.
C18_SameInputSameOutput ==
    [][(FrameStep /\ call.options.ditherType = 1 /\ call'.result = "true")
       => \E rand \in RandChoices : gpu'.px = FirstRenderPixels(rand)]_vars

\* ------------------------------------------------ the downsampling properties
\* the frame of the call in flight as a render of its image with factor 1
\* runs it: the states and results it can end in
FactorOneOutcomes ==
    LET options == [call.options EXCEPT !.downSampling = 1]
        cmds == ditherImageCommands(call.image, options, texture, errorTexture,
                                    paletteTexture, lastPaletteOptions)
    IN  {[g |-> Run(gpu, cmds, IF throwAt = 0 THEN Len(cmds) ELSE throwAt - 1, rand).g,
          result |-> IF throwAt = 0 THEN ditherImageReturn(options, errorTexture)
                     ELSE CatchOf(cmds[throwAt].in)] :
            throwAt \in {0} \cup ThrowPoints(cmds), rand \in RandChoices}

\* C19: if the downsampling step fails (its promise rejects) for a factor
\* greater than 1, the render proceeds with the original image: the call
\* waits for its frame with that image, and its frame sizes the destination
\* to the original width and height and ends as the frame of a render of the
\* image with factor 1 ends.
C19_RejectionKeepsOriginal ==
    [][/\ call.pc = "downsampling"
          => afterDownsample(call.image,
                 downSampleImage(call.image, call.options.downSampling, "reject"))
               = [pc |-> "raf", processed |-> call.image, result |-> "none"]
       /\ (FrameStep /\ call.options.downSampling > 1 /\ call.processed = call.image)
          => /\ gpu'.width = call.image.width /\ gpu'.height = call.image.height
             /\ [g |-> gpu', result |-> call'.result] \in FactorOneOutcomes]_vars
\* a call with a factor above 1 waits for its frame with the original image
C19_Witness ==
    /\ call.pc = "raf" /\ call.options.downSampling > 1
    /\ call.processed = call.image /\ call.image # NoImage

\* a call of the application returns in this step
AppFrameStep == app.pc = "mounted" /\ app.frames # <<>> /\ app'.frames = Tail(app.frames)

LookedUp == frag.phase = "threshold"

\* C21: for every Bayer matrix size n (2, 4, 8; 8 for any other value of
\* u_bayerSize) and non-negative pixel coordinates x, y the threshold lookup
\* is periodic with period n in both axes, in main and in the lookup
\* functions themselves.
C21_ThresholdPeriodic ==
    LookedUp =>
        \A n \in {matrixSize(frag.bayerSize)} :
            /\ frag.threshold = mainThreshold(frag.bayerSize, frag.x + n, frag.y)
            /\ frag.threshold = mainThreshold(frag.bayerSize, frag.x, frag.y + n)
            /\ getBayerThreshold(frag.bayerSize, frag.x, frag.y)
                 = getBayerThreshold(frag.bayerSize, frag.x + n, frag.y)
            /\ getBayerThreshold(frag.bayerSize, frag.x, frag.y)
                 = getBayerThreshold(frag.bayerSize, frag.x, frag.y + n)
\* the threshold of pixel (9, 3) under the 8 x 8 matrix: entry (1, 3), 28/64
C21_Witness ==
    /\ LookedUp /\ frag.bayerSize = 2 /\ frag.x = 9 /\ frag.y = 3
    /\ frag.threshold = 28 * (Q \div 64)

\* C30: each Bayer table is a permutation: over one n-by-n tile the
\* thresholds times n*n are the integers 0 .. n*n-1, each once; and the tile
\* size main reduces the pixel coordinate by is the modulus of the selected
\* lookup function, for every value of u_bayerSize: the reduced lookup is
\* the lookup at the pixel's own coordinates, and no smaller tile would do.
C30_TablesArePermutations ==
    LookedUp =>
        \A n \in {matrixSize(frag.bayerSize)} :
        \A cells \in {(0..(n - 1)) \X (0..(n - 1))} :
            /\ \A c \in cells :
                  (getBayerThreshold(frag.bayerSize, c[1], c[2]) * n * n) % Q = 0
            /\ {(getBayerThreshold(frag.bayerSize, c[1], c[2]) * n * n) \div Q : c \in cells}
                 = 0..(n * n - 1)
            /\ \A c \in cells, d \in cells :
                  c # d => getBayerThreshold(frag.bayerSize, c[1], c[2])
                             # getBayerThreshold(frag.bayerSize, d[1], d[2])
            /\ frag.threshold = getBayerThreshold(frag.bayerSize, frag.x, frag.y)
            /\ \A k \in 1..(n - 1) :
                  /\ getBayerThreshold(frag.bayerSize, 0, 0)
                       # getBayerThreshold(frag.bayerSize, k, 0)
                  /\ getBayerThreshold(frag.bayerSize, 0, 0)
                       # getBayerThreshold(frag.bayerSize, 0, k)
\* the threshold of pixel (6, 5) under the 4 x 4 matrix: entry (2, 1), 11/16
C30_Witness ==
    /\ LookedUp /\ frag.bayerSize = 1 /\ frag.x = 6 /\ frag.y = 5
    /\ frag.threshold = 11 * (Q \div 16)

\* ------------------------------------------------- the render-order properties
\* the positions of the log at which the predicate holds
Positions(l, Test(_)) == {i \in 1..Len(l) : Test(l[i])}
IsResize(e) == e.op \in {"canvas.width", "canvas.height", "viewport"}
IsImageUpload(e) == e.op = "texImage2D" /\ e.tex = "main"
IsPaletteUpload(e) == e.op = "texImage2D" /\ e.tex = "pal"
IsUniforms(e) == e.op = "uniforms"
\* every position of before comes ahead of every position of after
Precede(before, after) == \A i \in before, j \in after : i < j

\* C22: every render call that issues a draw performs its steps in this
\* order: the canvas and the viewport resized to the image, the image
\* uploaded to the source texture, the palette texture updated if needed,
\* the parameters bound, then the draw or draws; no draw precedes the call's
\* image upload, and the source texture holds this call's image, not the
\* previous call's.
C22_StepsInOrder ==
    [][(FrameStep /\ ~NoDraw(log'))
       => \A l \in {log'} :
            /\ l[1].op = "canvas.width" /\ l[1].n = call.processed.width
            /\ l[2].op = "canvas.height" /\ l[2].n = call.processed.height
            /\ l[3].op = "viewport"
            /\ gpu'.viewport = <<call.processed.width, call.processed.height>>
            /\ Cardinality(Positions(l, IsImageUpload)) = 1
            /\ Cardinality(Positions(l, IsUniforms)) = 1
            /\ Precede(Positions(l, IsResize), Positions(l, IsImageUpload))
            /\ Precede(Positions(l, IsImageUpload), Positions(l, IsPaletteUpload))
            /\ Precede(Positions(l, IsPaletteUpload), Positions(l, IsUniforms))
            /\ Precede(Positions(l, IsUniforms), Positions(l, IsDraw))
            /\ Precede(Positions(l, IsImageUpload), Positions(l, IsDraw))
            /\ gpu'.tex.main = ImageContent(call.processed)]_vars

\* ------------------------------------------- the palette-buffer properties
\* C23: the 256-entry buffer computed for a colour list depends only on the
\* list: the bytes createPaletteTexture wrote for a list are the bytes
\* updatePaletteTexture computes for it, the entries updatePaletteTexture
\* wrote (with alpha 255) are the bytes createPaletteTexture computes, and
\* computing either again gives the same bytes.
C23_SameListSameBuffer ==
    /\ stage.pc = "created" =>
          /\ stage.bytes = updatePaletteBuffer(stage.list)
          /\ stage.bytes = createPaletteBuffer(stage.list)
          /\ Len(stage.bytes) = 256
    /\ Rasterized =>
          /\ [n \in 1..Len(stage.data) |->
                <<stage.data[n][1], stage.data[n][2], stage.data[n][3], 255>>]
               = createPaletteBuffer(stage.list)
          /\ updatePaletteBuffer(stage.list) = createPaletteBuffer(stage.list)
\* createPaletteTexture has written the buffer of the five-colour GRAYSCALE
\* list: #000000 at entry 0, #FFFFFF at entry 255
C23_Witness ==
    /\ stage.pc = "created" /\ stage.list = PALETTES.GRAYSCALE
    /\ stage.bytes[1] = <<0, 0, 0, 255>> /\ stage.bytes[256] = <<255, 255, 255, 255>>
    /\ stage.bytes[128] = <<136, 136, 136, 255>>

\* ------------------------------------------- the error-texture properties
\* the index of the first draw among the commands
FirstDraw(cmds) ==
    CHOOSE i \in 1..Len(cmds) :
        /\ cmds[i].op = "drawArrays"
        /\ \A j \in 1..(i - 1) : cmds[j].op # "drawArrays"
\* the colour main() gives the pixel under the uniforms and bindings of g,
\* with the given pass index, dither amount and palette switch
PassOutput(g, p, passIndex, amt, usePal) ==
    main([g.u EXCEPT !.passIndex = passIndex, !.ditherAmount = amt,
                     !.usePalette = usePal],
         p[1], p[2], FetchTexel(Bound(g, g.u.image)),
         FetchTexel(Bound(g, g.u.errorTexture)), Bound(g, g.u.palette), 0)
ListToUpload(options) ==
    LET colors == getPaletteColors(options)
    IN  IF Len(colors) > 0 THEN colors ELSE <<BLACK, WHITE>>
\* C25: after any sequence of render calls on one instance, when a render
\* draws, the palette texture holds the rasterization of the colour list
\* resolved from that call's options ([black, white] when it is empty); a
\* change of the colours of the selected user palette under an unchanged id
\* is in the texture before the draw.
C25_PaletteTextureCurrent ==
    [][(FrameStep /\ ~NoDraw(log') /\ paletteTexture # "null")
       => gpu'.tex.pal = PaletteContent(updatePaletteData(ListToUpload(call.options)))]_vars

\* ------------------------------------------- the texture-unit properties
\* the context state in which command i of the frame's commands is issued
StateBefore(cmds, i) ==
    Run(gpu, cmds, i - 1, [p \in Pixels(call.processed.width, call.processed.height) |-> 0]).g
\* C26: at every draw of every render, texture unit 0 is bound to the source
\* image texture and read as u_image, unit 2 is bound to the palette texture
\* when there is one, and in an error-diffusion render unit 1 is bound to
\* the error texture at both draws; the binding the palette or error upload
\* made on unit 0 is not there at a draw.
C26_UnitsAtDraw ==
    [][(FrameStep /\ ~NoDraw(log'))
       => \E cmds \in {FrameCommands} :
          \A i \in 1..Len(log') :
             cmds[i].op = "drawArrays"
             => \E g \in {StateBefore(cmds, i)} :
                  /\ g.u.image = 0 /\ g.units[0] = "main"
                  /\ paletteTexture # "null" => (g.units[2] = "pal" /\ g.u.palette = 2)
                  /\ call.options.ditherType = 1
                       => (g.units[1] = "err" /\ g.u.errorTexture = 1)]_vars

\* ------------------------------------- the overlapping-calls specification
\* One WebGLService after a successful setupWebGL, and a caller that issues
\* ditherImage calls without waiting for the earlier ones.  `app` is the
\* caller: the calls in issue order, the animation-frame callbacks in request
\* order, and the GL commands issued so far, each with the call that issued
\* it.  No statement throws.
NoCalls == [pc |-> "calls", calls |-> <<>>, frames |-> <<>>, issued |-> <<>>]
OverlapRequests ==
    {<<imgA, [DefaultOptions EXCEPT !.bayerSize = 0, !.downSampling = f]>> :
        f \in 1..MaxFactor}
    \cup {<<imgB, [DefaultOptions EXCEPT !.ditherType = 1, !.bayerSize = 0]>>}
OverlapInit ==
    /\ gl = "null" /\ program = "null" /\ texture = "null"
    /\ errorTexture = "null" /\ paletteTexture = "null" /\ canvas = "null"
    /\ lastPaletteOptions = <<>>
    /\ gpu \in {InitGpu(floatTextures) : floatTextures \in BOOLEAN}
    /\ setupResult = "none"
    /\ call = NoCall
    /\ log = <<>>
    /\ frag = NoFrag
    /\ stage = NoStage
    /\ app = NoCalls
\* the component's one setupWebGL, before any render
overlapSetup ==
    /\ app.pc = "calls" /\ app.calls = <<>> /\ setupResult = "none"
    /\ setupWebGL("ok", {})
\* ditherImage up to its first await, whatever the earlier calls are doing:
\* the guard, then the downsampling request or the animation-frame request
overlapStart(image, options) ==
    /\ app.pc = "calls"
    /\ Len(app.calls) < MaxOverlap
    /\ LET n == Len(app.calls) + 1
           c == IF gl = "null" \/ program = "null" \/ canvas = "null"
                THEN [pc |-> "done", image |-> image, options |-> options,
                      processed |-> image, result |-> "false", rest |-> <<>>]
                ELSE [pc |-> IF options.downSampling > 1 THEN "downsampling" ELSE "raf",
                      image |-> image, options |-> options, processed |-> image,
                      result |-> "none", rest |-> <<>>]
       IN  app' = [app EXCEPT !.calls = Append(app.calls, c),
                              !.frames = IF c.pc = "raf" THEN Append(app.frames, n)
                                         ELSE app.frames]
    /\ UNCHANGED <<svcVars, lastPaletteOptions, gpu, setupResult, call, log, frag, stage>>
\* downSampleImage settles for call n, which then requests its frame
overlapDownsampled(n, outcome) ==
    /\ app.pc = "calls"
    /\ n \in 1..Len(app.calls)
    /\ app.calls[n].pc = "downsampling"
    /\ outcome \in DownsampleOutcomes(app.calls[n].image, app.calls[n].options.downSampling)
    /\ LET c == app.calls[n]
           next == afterDownsample(c.image, downSampleImage(c.image, c.options.downSampling,
                                                            outcome))
       IN  app' = [app EXCEPT !.calls[n].pc = next.pc,
                              !.calls[n].processed = next.processed,
                              !.frames = Append(app.frames, n)]
    /\ UNCHANGED <<svcVars, lastPaletteOptions, gpu, setupResult, call, log, frag, stage>>
\* variant: the statements after the animation-frame wait with an await
\* before the first draw
FrameTasksAwaitBeforeDraw(cmds) ==
    LET k == CHOOSE i \in 1..Len(cmds) :
                /\ cmds[i].op = "drawArrays"
                /\ \A j \in 1..(i - 1) : cmds[j].op # "drawArrays"
    IN  <<SubSeq(cmds, 1, k - 1), SubSeq(cmds, k, Len(cmds))>>
\* the statements of ditherImage after `await new Promise(requestAnimationFrame)`
\* as tasks of the event loop: there is no await among them, they are one task
FrameTasks(cmds) == <<cmds>>
\* the calls that can run: the one whose animation-frame callback is first
\* in the queue, and those suspended inside their frame
Runnable ==
    (IF app.frames # <<>> THEN {Head(app.frames)} ELSE {})
    \cup {n \in 1..Len(app.calls) : app.calls[n].pc = "frame"}
\* one task of call n: its commands run in order on the context; after its
\* last task the call returns
overlapFrame(n) ==
    /\ app.pc = "calls"
    /\ n \in Runnable
    /\ \E c \in {app.calls[n]} :
       \E tasks \in {IF c.pc = "raf"
                     THEN FrameTasks(ditherImageCommands(c.processed, c.options, texture,
                                         errorTexture, paletteTexture, lastPaletteOptions))
                     ELSE c.rest} :
       \E end \in {Run(gpu, tasks[1], Len(tasks[1]),
                       [p \in Pixels(c.processed.width, c.processed.height) |-> 0])} :
          /\ gpu' = end.g
          /\ log' = end.log
          /\ lastPaletteOptions' =
               IF \E i \in 1..Len(tasks[1]) : tasks[1][i].op = "lastPaletteOptions"
               THEN paletteOptionsKey(c.options) ELSE lastPaletteOptions
          /\ app' = [app EXCEPT
                       !.calls[n] =
                           IF Len(tasks) = 1
                           THEN [c EXCEPT !.pc = "done", !.rest = <<>>,
                                          !.result = ditherImageReturn(c.options,
                                                                       errorTexture)]
                           ELSE [c EXCEPT !.pc = "frame", !.rest = Tail(tasks)],
                       !.frames = IF c.pc = "raf" THEN Tail(app.frames) ELSE app.frames,
                       !.issued = app.issued
                                  \o [i \in 1..Len(tasks[1]) |->
                                        [n |-> n, op |-> tasks[1][i].op]]]
    /\ UNCHANGED <<svcVars, setupResult, call, frag, stage>>
OverlapNext ==
    \/ overlapSetup
    \/ \E request \in OverlapRequests : overlapStart(request[1], request[2])
    \/ \E n \in 1..MaxOverlap, outcome \in {"scaled", "original", "reject"} :
          overlapDownsampled(n, outcome)
    \/ \E n \in 1..MaxOverlap : overlapFrame(n)
SpecOverlap == OverlapInit /\ [][OverlapNext]_vars

\* ------------------------------------------ the overlapping-calls properties
\* the commands call n has issued, as positions of the command sequence
IssuedBy(n) == {i \in 1..Len(app.issued) : app.issued[i].n = n}
\* C27: when ditherImage calls overlap on one instance, their GL command
\* sequences do not interleave: the commands of a call, from the resize of
\* the destination to its last draw, are consecutive in the sequence of
\* commands issued (a call has no suspension point after its
\* animation-frame wait: once its frame has begun it is not left suspended).
C27_FramesDoNotInterleave ==
    app.pc = "calls" =>
       /\ \A n \in 1..Len(app.calls) :
            /\ app.calls[n].pc # "frame"
            /\ \A s \in {IssuedBy(n)} :
                 s # {} =>
                    \E first \in s :
                       /\ s = first..(first + Cardinality(s) - 1)
                       /\ app.issued[first].op = "canvas.width"
                       /\ app.issued[first + Cardinality(s) - 1].op = "drawArrays"
\* two calls overlapped: the first was still downsampling when the second
\* was made and had its frame; both have issued their commands and returned
\* true, the second's commands first
C27_Witness ==
    /\ app.pc = "calls" /\ Len(app.calls) = 2
    /\ app.calls[1].pc = "done" /\ app.calls[1].result = "true"
    /\ app.calls[2].pc = "done" /\ app.calls[2].result = "true"
    /\ app.calls[1].options.downSampling > 1
    /\ app.calls[2].options.ditherType = 1
    /\ app.issued[1].n = 2 /\ app.issued[Len(app.issued)].n = 1
    /\ IssuedBy(1) # {} /\ IssuedBy(2) # {}

\* the surface a render of call c's working image with its options leaves
RenderedSurface(c) ==
    LET cmds == ditherImageCommands(c.processed, c.options, texture, errorTexture,
                                    paletteTexture, <<>>)
        g == Run(gpu, cmds, Len(cmds),
                 [p \in Pixels(c.processed.width, c.processed.height) |-> 0]).g
    IN  [width |-> g.width, height |-> g.height, px |-> g.px]
\* C28: when two ditherImage calls A then B are issued on one instance and
\* both resolve true, the destination surface finally holds the result of B,
\* the later-issued call, also when A uses a downsampling factor greater
\* than 1 and B does not.
C28_LaterCallWins ==
    (/\ app.pc = "calls" /\ Len(app.calls) = 2
     /\ \A n \in 1..2 : app.calls[n].pc = "done" /\ app.calls[n].result = "true")
    => [width |-> gpu.width, height |-> gpu.height, px |-> gpu.px]
         = RenderedSurface(app.calls[2])

\* ------------------------------------------- the visible-canvas properties
\* no call is in flight and no copy is pending
AppQuiet == InFlight = 0 /\ app.copies = {}
\* C29: in DitherCanvas.renderFrame, whenever onProcessComplete(true) is
\* delivered the visible canvas already holds the result of that render; and
\* when several renders have completed, the visible canvas ends with the
\* result of the last render performed by the service.
C29_VisibleHoldsRender ==
    [][/\ (AppFrameStep /\ app'.returned.result = "true")
          => app'.visible = app'.rendered
       /\ (app'.pc = "mounted" /\ InFlight' = 0 /\ app'.copies = {} /\ app'.rendered # 0)
          => app'.visible = app'.rendered]_vars

====
